---- MODULE Spec2Model ----
(***************************************************************************)
(* Model of the native image layer of rwlib (src/rwlib/src/natimage.cpp):  *)
(* the NativeImagePrivate handle with its ownership fields, the rasters it *)
(* borrows pixel and palette data from, and the operations that move data  *)
(* between the two.                                                        *)
(*                                                                         *)
(* Every operation of natimage.cpp is a pure operator over a heap record   *)
(* (the fields of all images and rasters); an action applies one operator  *)
(* to the current heap and stores the result.  Operations run under the    *)
(* write lock of the image and are therefore atomic here; the locks an     *)
(* operation takes are recorded in lastOp.locks in acquisition order.      *)
(***************************************************************************)
EXTENDS Integers, Sequences, FiniteSets, TLC

\* ---------------------------------------------------------------- bounds

\* Number of NativeImage slots (live or free).
NumImages == 2

\* Number of rasters.
NumRasters == 2

\* Number of distinct pixel / palette contents (0 is "no data").
MaxData == 2

\* Copy-construction of a borrowing image is not started once this many
\* references of its raster have leaked (a copy can leak references).
MaxLeaks == 1

\* Const-references the callers hold themselves on one raster.
MaxCallerRefs == 1

\* Number of native image type managers (codecs) that exist.
NumManagers == 2

\* Number of type names the codecs register under.
NumTypeNames == 2

\* Number of friendly names (with their extension and texture tables).
NumFriendlyNames == 2

\* Highest stream position.
MaxPos == 2

NumThreads == 2

MaxCalls == 2

Images == 1..NumImages

Rasters == 1..NumRasters

\* The null Raster pointer.
NULL == 0

\* No pixel or palette buffer (a null pointer).
NoData == NULL

\* A pointer to a buffer that has been freed.
Dangling == 0 - 1

DataVals == 1..MaxData

Managers == 1..NumManagers

TypeNames == 1..NumTypeNames

FriendlyNames == 1..NumFriendlyNames

Positions == 0..MaxPos

Payloads == {NoData, Dangling} \cup DataVals

VARIABLES
    imgAlive,            \* image slot holds a constructed NativeImage
    hasPaletteDataRef,   \* NativeImagePrivate::hasPaletteDataRef
    hasPixelDataRef,     \* NativeImagePrivate::hasPixelDataRef
    pixelOwner,          \* NativeImagePrivate::pixelOwner (NULL or a raster)
    externalRasterRef,   \* NativeImagePrivate::externalRasterRef
    imgPixels,           \* codec payload of the image: pixel buffer
    imgPalette,          \* codec payload of the image: palette buffer
    refCount,            \* Raster: owning reference count
    constRefCount,       \* Raster: const-reference count
    platformData,        \* Raster::platformData is non-null
    texPixels,           \* native texture of the raster: mipmap data
    texPalette,          \* native texture of the raster: palette data
    callerConstRefs,     \* const-references taken by callers themselves
    streamImages,        \* the images the streams of this run hold
    traced,              \* whether the run records its operations in lastOp
    lastOp,              \* the operation that ran last, with its outcome
    formatsList,         \* nativeImageEnv::formatsList, from its root on
    typeSystem,          \* type name -> manager of the type registered under
                         \* the native image base type (NULL: no such type)
    manData,             \* nativeImageTypeManager::manData of every manager
    regOrder,            \* the registered managers, in the order of the calls
    streamPos,           \* Stream: position of the cursor
    probeAccepts,        \* the managers whose IsStreamNativeImage accepts
                         \* the contents of the stream
    lastProbe,           \* the last GetNativeImageTypeForStream call
    lastReg,             \* the last (un)registration call
    tiffStream,          \* the bytes of the stream the TIFF probe reads
    tiffPos,             \* the position of the cursor of that stream
    tiffPc,              \* where IsStreamCompatible stands
    tiffFrame,           \* the local variables of IsStreamCompatible
    tiffResult,          \* what IsStreamCompatible returned, once tiffPc is "done"
    thrPc,               \* where each thread stands in its call
    thrCall,             \* the call each thread is in, with its arguments
    thrItem,             \* the list node a traversing thread stands on
    thrHeld,             \* the locks each thread holds, in order of acquisition
    thrCallsLeft,        \* how many more calls each thread makes
    decIn,               \* the tags of the TIFF file that is decoded
    decPc,               \* whether DeserializeImage has run on it
    decOut,              \* the layout it chose and the way it read the texels
    pvrTex,              \* the PowerVR native texture
    pvrLast,             \* the last call on it: input, state before, outcome
    palColor,            \* an 8-bit channel of a palette colour of an image
    palPc,               \* how far the colour has gone through the TIFF codec
    colormap,            \* the 16-bit channel in the TIFF colormap
    palRead,             \* the 8-bit channel of the image read back
    pvrBlock,            \* what SerializeTexture wrote into the struct block
    pvrWritten,          \* how SerializeTexture ended
    lifePc,              \* the next statement of the type interface call
                         \* that is under way (0: none)
    lifeCall,            \* that call: its statements, image, source, outcome
    lifeLog,             \* the statements of that call that have run
    compressors,         \* streamCompressionEnv::compressors
    strLast,             \* the last CreateDecompressedStream call
    tmpRoot,             \* streamCompressionEnv::tmpRoot
    lockRootConsistency, \* the thread that holds the lock as writer, or NULL
    repPc,               \* where each thread is in GetRepository
    repLog               \* what the environment did so far

\* The state of the images and rasters.
imgVars == <<imgAlive, hasPaletteDataRef, hasPixelDataRef, pixelOwner,
             externalRasterRef, imgPixels, imgPalette, refCount, constRefCount,
             platformData, texPixels, texPalette, callerConstRefs, streamImages,
             traced, lastOp>>

\* The state of the registry of native image types and of the stream that
\* is probed.
regVars == <<formatsList, typeSystem, manData, regOrder, streamPos,
             probeAccepts, lastProbe, lastReg>>

\* The state of the TIFF probe and of the stream it reads.
tiffVars == <<tiffStream, tiffPos, tiffPc, tiffFrame, tiffResult>>

\* The threads and the locks they hold.
thrVars == <<thrPc, thrCall, thrItem, thrHeld, thrCallsLeft>>

\* The TIFF decoder.
decVars == <<decIn, decPc, decOut>>

\* The PowerVR native texture.
pvrVars == <<pvrTex, pvrLast>>

\* The palette of a TIFF file.
palVars == <<palColor, palPc, colormap, palRead>>

\* The struct block of a PowerVR texture.
serVars == <<pvrBlock, pvrWritten>>

\* A call of the type interface of the native images, statement by
\* statement.
lifeVars == <<lifePc, lifeCall, lifeLog>>

\* The stream compression environment of the main window.
strVars == <<compressors, strLast>>

\* The parts that the actions of the image layer, the registry, the probe
\* and the textures above never touch.
\* The temporary repository of the stream compression environment.
repVars == <<tmpRoot, lockRootConsistency, repPc, repLog>>

auxVars == <<palVars, serVars, lifeVars, strVars, repVars>>

\* What an action on one of these parts leaves alone.
auxButPal == <<serVars, lifeVars, strVars, repVars>>

auxButSer == <<palVars, lifeVars, strVars, repVars>>

auxButLife == <<palVars, serVars, strVars, repVars>>

auxButStr == <<palVars, serVars, lifeVars, repVars>>

auxButRep == <<palVars, serVars, lifeVars, strVars>>

vars == <<imgVars, regVars, tiffVars, thrVars, decVars, pvrVars, auxVars>>

\* The heap the operations of natimage.cpp work on.
Heap ==
    [ imgAlive          |-> imgAlive,
      hasPaletteDataRef |-> hasPaletteDataRef,
      hasPixelDataRef   |-> hasPixelDataRef,
      pixelOwner        |-> pixelOwner,
      externalRasterRef |-> externalRasterRef,
      imgPixels         |-> imgPixels,
      imgPalette        |-> imgPalette,
      refCount          |-> refCount,
      constRefCount     |-> constRefCount,
      platformData      |-> platformData,
      texPixels         |-> texPixels,
      texPalette        |-> texPalette ]

Commit(h) ==
    /\ imgAlive' = h.imgAlive
    /\ hasPaletteDataRef' = h.hasPaletteDataRef
    /\ hasPixelDataRef' = h.hasPixelDataRef
    /\ pixelOwner' = h.pixelOwner
    /\ externalRasterRef' = h.externalRasterRef
    /\ imgPixels' = h.imgPixels
    /\ imgPalette' = h.imgPalette
    /\ refCount' = h.refCount
    /\ constRefCount' = h.constRefCount
    /\ platformData' = h.platformData
    /\ texPixels' = h.texPixels
    /\ texPalette' = h.texPalette

\* ------------------------------------------------------------- rasters

\* Raster::addConstRef.
addConstRef(h, r) ==
    [h EXCEPT !.constRefCount[r] = @ + 1]

\* Raster::remConstRef.
remConstRef(h, r) ==
    [h EXCEPT !.constRefCount[r] = @ - 1]

\* AcquireRaster: one more owner; a null pointer is passed through.
AcquireRaster(h, r) ==
    IF r = NULL THEN h ELSE [h EXCEPT !.refCount[r] = @ + 1]

\* DeleteRaster: one owner less.  The texture dictionary keeps its own
\* reference throughout, so the count does not reach zero here.
DeleteRaster(h, r) ==
    [h EXCEPT !.refCount[r] = @ - 1]

\* Images whose payload aliases the pixel buffer of raster r.
PixelBorrowers(h, r) ==
    {i \in Images : h.imgAlive[i] /\ h.pixelOwner[i] = r /\ h.hasPixelDataRef[i]}

\* pvrNativeTextureTypeProvider::UnsetPixelDataFromTexture: the texture
\* drops its mipmaps; with deallocate the buffers are freed, which leaves
\* every payload that aliases them dangling.
UnsetPixelDataFromTexture(h, r, deallocate) ==
    [h EXCEPT
        !.texPixels[r] = NoData,
        !.imgPixels = [i \in Images |->
            IF deallocate /\ i \in PixelBorrowers(h, r) /\ h.texPixels[r] # NoData
            THEN Dangling ELSE @[i]]]

\* ------------------------------------------------- codec (type manager)

\* nativeImageTypeManager::ClearPaletteData: the payload forgets its palette
\* (and frees it when deallocate is set).
ClearPaletteData(h, i, deallocate) ==
    [h EXCEPT !.imgPalette[i] = NoData]

\* nativeImageTypeManager::ClearImageData: the payload forgets its mipmaps
\* (and frees them when deallocate is set).
ClearImageData(h, i, deallocate) ==
    [h EXCEPT !.imgPixels[i] = NoData]

\* nativeImageTypeManager::ReadFromNativeTexture, successful: the payload
\* holds the data of the native texture, aliased or copied.
ReadFromNativeTexture(h, i, r) ==
    [h EXCEPT !.imgPixels[i] = h.texPixels[r],
              !.imgPalette[i] = h.texPalette[r]]

\* nativeImageTypeManager::WriteToNativeTexture, successful: the native
\* texture holds the data of the payload, adopted or copied.
WriteToNativeTexture(h, i, r) ==
    [h EXCEPT !.texPixels[r] = h.imgPixels[i],
              !.texPalette[r] = h.imgPalette[i]]

\* nativeImageTypeManager::ReadNativeImage, successful: the payload holds
\* the image read from the stream.
ReadNativeImage(h, i, pix, pal) ==
    [h EXCEPT !.imgPixels[i] = pix, !.imgPalette[i] = pal]

\* nativeImageTypeManager::CopyConstructImage: the payload is cloned.
CopyConstructImage(h, dst, src) ==
    [h EXCEPT !.imgPixels[dst] = h.imgPixels[src],
              !.imgPalette[dst] = h.imgPalette[src]]

\* What a codec call reports: whether it threw, and the acquire feedback.
Feedbacks ==
    [ throws : BOOLEAN,
      hasDirectlyAcquired : BOOLEAN,
      hasDirectlyAcquiredPalette : BOOLEAN ]

\* ------------------------------------------------- NativeImagePrivate

\* NativeImagePrivate::NativeImagePrivate( EngineInterface* ).
NativeImagePrivate(h, i) ==
    [h EXCEPT !.hasPaletteDataRef[i] = FALSE,
              !.hasPixelDataRef[i] = FALSE,
              !.pixelOwner[i] = NULL,
              !.externalRasterRef[i] = FALSE]

\* NativeImagePrivate::NativeImagePrivate( const NativeImagePrivate& right ).
NativeImagePrivateCopy(h, i, right) ==
    LET h1 == [h EXCEPT !.hasPaletteDataRef[i] = h.hasPaletteDataRef[right],
                        !.hasPixelDataRef[i] = h.hasPixelDataRef[right]]
        h2 == [AcquireRaster(h1, h.pixelOwner[right])
                  EXCEPT !.pixelOwner[i] = h.pixelOwner[right]]
        h3 == IF h2.pixelOwner[i] # NULL
              THEN addConstRef(h2, h2.pixelOwner[i])
              ELSE h2
    IN  [h3 EXCEPT !.externalRasterRef[i] = h.externalRasterRef[right]]

\* The assertions of NativeImagePrivate::~NativeImagePrivate.
DestructorAsserts(h, i) ==
    /\ h.hasPaletteDataRef[i] = FALSE
    /\ h.hasPixelDataRef[i] = FALSE
    /\ h.pixelOwner[i] = NULL

\* The memory of a destroyed handle is given back: the slot is free and
\* holds nothing.
ReleaseSlot(h, i) ==
    [h EXCEPT !.imgAlive[i] = FALSE,
              !.hasPaletteDataRef[i] = FALSE,
              !.hasPixelDataRef[i] = FALSE,
              !.pixelOwner[i] = NULL,
              !.externalRasterRef[i] = FALSE,
              !.imgPixels[i] = NoData,
              !.imgPalette[i] = NoData]

\* clearImageData that gives back a const-reference whoever took it (the
\* test of externalRasterRef is missing).
clearImageData_alwaysRemConstRef(h, i) ==
    LET h1 == ClearPaletteData(h, i, h.hasPaletteDataRef[i] = FALSE)
        h2 == ClearImageData(h1, i, h.hasPixelDataRef[i] = FALSE)
        h3 == [h2 EXCEPT !.hasPaletteDataRef[i] = FALSE,
                         !.hasPixelDataRef[i] = FALSE]
        owner == h3.pixelOwner[i]
        h4 == IF owner # NULL
              THEN [DeleteRaster(remConstRef(h3, owner), owner)
                        EXCEPT !.pixelOwner[i] = NULL]
              ELSE h3
    IN  [h4 EXCEPT !.externalRasterRef[i] = FALSE]

\* clearImageData that releases the raster but keeps the pointer to it (the
\* assignment of NULL to pixelOwner is missing).
clearImageData_keepsOwner(h, i) ==
    LET h1 == ClearPaletteData(h, i, h.hasPaletteDataRef[i] = FALSE)
        h2 == ClearImageData(h1, i, h.hasPixelDataRef[i] = FALSE)
        h3 == [h2 EXCEPT !.hasPaletteDataRef[i] = FALSE,
                         !.hasPixelDataRef[i] = FALSE]
        owner == h3.pixelOwner[i]
        h4 == IF owner # NULL
              THEN LET h4a == IF h3.externalRasterRef[i] = FALSE
                              THEN remConstRef(h3, owner)
                              ELSE h3
                   IN  DeleteRaster(h4a, owner)
              ELSE h3
    IN  [h4 EXCEPT !.externalRasterRef[i] = FALSE]

\* NativeImagePrivate::clearImageData.
clearImageData(h, i) ==
    LET shouldFreeNativePaletteData == (h.hasPaletteDataRef[i] = FALSE)
        h1 == ClearPaletteData(h, i, shouldFreeNativePaletteData)
        shouldFreeNativeImageData == (h.hasPixelDataRef[i] = FALSE)
        h2 == ClearImageData(h1, i, shouldFreeNativeImageData)
        h3 == [h2 EXCEPT !.hasPaletteDataRef[i] = FALSE,
                         !.hasPixelDataRef[i] = FALSE]
        owner == h3.pixelOwner[i]
        h4 == IF owner # NULL
              THEN LET h4a == IF h3.externalRasterRef[i] = FALSE
                              THEN remConstRef(h3, owner)
                              ELSE h3
                   IN  [DeleteRaster(h4a, owner) EXCEPT !.pixelOwner[i] = NULL]
              ELSE h3
    IN  [h4 EXCEPT !.externalRasterRef[i] = FALSE]

\* The outcome of an operation: the heap it leaves, how it ended, the
\* needsRef it reports, the locks it took and whether it unset the pixel
\* data of the raster.
Outcome(h, result, needsRef, locks, unset, asserts) ==
    [ h |-> h, result |-> result, needsRef |-> needsRef, locks |-> locks,
      unset |-> unset, asserts |-> asserts ]

\* nativeImageTypeInterface::Construct.
Construct(h, i, throws) ==
    LET h1 == NativeImagePrivate(h, i)
    IN  IF throws
        THEN Outcome(ReleaseSlot(h1, i), "codec_throw", FALSE, <<>>, FALSE,
                     DestructorAsserts(h1, i))
        ELSE Outcome([h1 EXCEPT !.imgAlive[i] = TRUE,
                                !.imgPixels[i] = NoData,
                                !.imgPalette[i] = NoData],
                     "ok", FALSE, <<>>, FALSE, TRUE)

\* nativeImageTypeInterface::CopyConstruct.
CopyConstruct(h, i, src, throws) ==
    LET h1 == NativeImagePrivateCopy(h, i, src)
    IN  IF throws
        THEN Outcome(ReleaseSlot(h1, i), "codec_throw", FALSE, <<>>, FALSE,
                     DestructorAsserts(h1, i))
        ELSE Outcome([CopyConstructImage(h1, i, src) EXCEPT !.imgAlive[i] = TRUE],
                     "ok", FALSE, <<>>, FALSE, TRUE)

\* Destruct that destroys the handle without clearing its image data.
Destruct_noClear(h, i) ==
    Outcome(ReleaseSlot(h, i), "ok", FALSE, <<>>, FALSE,
            DestructorAsserts(h, i))

\* nativeImageTypeInterface::Destruct.
Destruct(h, i) ==
    LET h1 == clearImageData(h, i)
    IN  Outcome(ReleaseSlot(h1, i), "ok", FALSE, <<>>, FALSE,
                DestructorAsserts(h1, i))

\* NativeImageFetchFromRaster_internal that takes the raster only for
\* directly acquired mipmaps, not for a directly acquired palette.
NativeImageFetchFromRaster_internal_mipmapOnly(h, i, r, fb) ==
    IF ~h.platformData[r]
    THEN Outcome(h, "no_native", FALSE, <<>>, FALSE, TRUE)
    ELSE IF fb.throws
    THEN Outcome(h, "codec_throw", FALSE, <<>>, FALSE, TRUE)
    ELSE
        LET h1 == ReadFromNativeTexture(h, i, r)
            hasPaletteReference == fb.hasDirectlyAcquiredPalette
            hasMipmapReference == fb.hasDirectlyAcquired
            taken == hasMipmapReference
            h2 == IF taken
                  THEN [AcquireRaster(h1, r) EXCEPT !.pixelOwner[i] = r]
                  ELSE h1
        IN  Outcome([h2 EXCEPT !.hasPaletteDataRef[i] = hasPaletteReference,
                               !.hasPixelDataRef[i] = hasMipmapReference],
                    "ok", taken, <<>>, FALSE, TRUE)

\* NativeImageFetchFromRaster_internal.
NativeImageFetchFromRaster_internal(h, i, r, fb) ==
    IF ~h.platformData[r]
    THEN Outcome(h, "no_native", FALSE, <<>>, FALSE, TRUE)
    ELSE IF fb.throws
    THEN Outcome(h, "codec_throw", FALSE, <<>>, FALSE, TRUE)
    ELSE
        LET h1 == ReadFromNativeTexture(h, i, r)
            hasPaletteReference == fb.hasDirectlyAcquiredPalette
            hasMipmapReference == fb.hasDirectlyAcquired
            taken == hasPaletteReference \/ hasMipmapReference
            h2 == IF taken
                  THEN [AcquireRaster(h1, r) EXCEPT !.pixelOwner[i] = r]
                  ELSE h1
        IN  Outcome([h2 EXCEPT !.hasPaletteDataRef[i] = hasPaletteReference,
                               !.hasPixelDataRef[i] = hasMipmapReference],
                    "ok", taken, <<>>, FALSE, TRUE)

\* fetchFromRaster that gives its const-reference back even when the image
\* borrows (the test of needsRef is missing).
fetchFromRaster_alwaysRelease(h, i, r, fb) ==
    LET h1 == clearImageData(h, i)
        h2 == addConstRef(h1, r)
        res == NativeImageFetchFromRaster_internal(h2, i, r, fb)
        locks == <<"image:write", "raster:read">>
    IN  IF res.result # "ok"
        THEN Outcome(remConstRef(res.h, r), res.result, FALSE, locks, FALSE, TRUE)
        ELSE Outcome(remConstRef([res.h EXCEPT !.externalRasterRef[i] = FALSE], r),
                     "ok", res.needsRef, locks, FALSE, TRUE)

\* fetchFromRaster that does not clear the image first.
fetchFromRaster_noClear(h, i, r, fb) ==
    LET h2 == addConstRef(h, r)
        res == NativeImageFetchFromRaster_internal(h2, i, r, fb)
        locks == <<"image:write", "raster:read">>
    IN  IF res.result # "ok"
        THEN Outcome(remConstRef(res.h, r), res.result, FALSE, locks, FALSE, TRUE)
        ELSE
            LET h3 == [res.h EXCEPT !.externalRasterRef[i] = FALSE]
                h4 == IF ~res.needsRef THEN remConstRef(h3, r) ELSE h3
            IN  Outcome(h4, "ok", res.needsRef, locks, FALSE, TRUE)

\* NativeImage::fetchFromRaster.
fetchFromRaster(h, i, r, fb) ==
    LET h1 == clearImageData(h, i)
        h2 == addConstRef(h1, r)
        res == NativeImageFetchFromRaster_internal(h2, i, r, fb)
        locks == <<"image:write", "raster:read">>
    IN  IF res.result # "ok"
        THEN Outcome(remConstRef(res.h, r), res.result, FALSE, locks, FALSE, TRUE)
        ELSE
            LET h3 == [res.h EXCEPT !.externalRasterRef[i] = FALSE]
                h4 == IF ~res.needsRef THEN remConstRef(h3, r) ELSE h3
            IN  Outcome(h4, "ok", res.needsRef, locks, FALSE, TRUE)

\* NativeImageFetchFromRasterNoLock that does not mark the const-reference
\* as the caller's (externalRasterRef stays false).
NativeImageFetchFromRasterNoLock_ownRef(h, i, r, fb) ==
    LET h1 == clearImageData(h, i)
        res == NativeImageFetchFromRaster_internal(h1, i, r, fb)
        locks == <<"image:write">>
    IN  Outcome(res.h, res.result, res.needsRef, locks, FALSE, TRUE)

\* NativeImageFetchFromRasterNoLock.
NativeImageFetchFromRasterNoLock(h, i, r, fb) ==
    LET h1 == clearImageData(h, i)
        res == NativeImageFetchFromRaster_internal(h1, i, r, fb)
        locks == <<"image:write">>
    IN  IF res.result # "ok"
        THEN Outcome(res.h, res.result, FALSE, locks, FALSE, TRUE)
        ELSE Outcome([res.h EXCEPT !.externalRasterRef[i] = TRUE],
                     "ok", res.needsRef, locks, FALSE, TRUE)

\* NativeImagePutToRaster_internal that clears the image data before it
\* pushes it to the raster instead of after.
NativeImagePutToRaster_internal_clearFirst(h, i, r, fb) ==
    IF ~h.platformData[r]
    THEN Outcome(h, "no_native", FALSE, <<>>, FALSE, TRUE)
    ELSE
        LET h1 == UnsetPixelDataFromTexture(h, r, TRUE)
        IN  IF fb.throws
            THEN Outcome(h1, "codec_throw", FALSE, <<>>, TRUE, TRUE)
            ELSE
                LET h2 == ClearPaletteData(h1, i, TRUE)
                    h3 == ClearImageData(h2, i, TRUE)
                    h4 == WriteToNativeTexture(h3, i, r)
                IN  Outcome(h4, "ok", FALSE, <<>>, TRUE, TRUE)

\* NativeImagePutToRaster_internal that leaves the image its data after
\* pushing it to the raster.
NativeImagePutToRaster_internal_keepsData(h, i, r, fb) ==
    IF ~h.platformData[r]
    THEN Outcome(h, "no_native", FALSE, <<>>, FALSE, TRUE)
    ELSE
        LET h1 == UnsetPixelDataFromTexture(h, r, TRUE)
        IN  IF fb.throws
            THEN Outcome(h1, "codec_throw", FALSE, <<>>, TRUE, TRUE)
            ELSE Outcome(WriteToNativeTexture(h1, i, r), "ok", FALSE, <<>>,
                         TRUE, TRUE)

\* NativeImagePutToRaster_internal.
NativeImagePutToRaster_internal(h, i, r, fb) ==
    IF ~h.platformData[r]
    THEN Outcome(h, "no_native", FALSE, <<>>, FALSE, TRUE)
    ELSE
        LET h1 == UnsetPixelDataFromTexture(h, r, TRUE)
        IN  IF fb.throws
            THEN Outcome(h1, "codec_throw", FALSE, <<>>, TRUE, TRUE)
            ELSE
                LET h2 == WriteToNativeTexture(h1, i, r)
                    isPaletteDataRef == fb.hasDirectlyAcquiredPalette
                    isMipmapDataRef == fb.hasDirectlyAcquired
                    h3 == ClearPaletteData(h2, i, isPaletteDataRef = FALSE)
                    h4 == ClearImageData(h3, i, isMipmapDataRef = FALSE)
                IN  Outcome(h4, "ok", FALSE, <<>>, TRUE, TRUE)

\* putToRaster without the test of pixelOwner.
putToRaster_noOwnerCheck(h, i, r, fb) ==
    LET res == NativeImagePutToRaster_internal(h, i, r, fb)
    IN  Outcome(res.h, res.result, FALSE,
                <<"image:write", "raster:write">>, res.unset, TRUE)

\* NativeImage::putToRaster.
putToRaster(h, i, r, fb) ==
    IF h.pixelOwner[i] # NULL
    THEN Outcome(h, "already_owned", FALSE, <<"image:write">>, FALSE, TRUE)
    ELSE
        LET res == NativeImagePutToRaster_internal(h, i, r, fb)
        IN  Outcome(res.h, res.result, FALSE,
                    <<"image:write", "raster:write">>, res.unset, TRUE)

\* NativeImagePutToRasterNoLock.
NativeImagePutToRasterNoLock(h, i, r, fb) ==
    IF h.pixelOwner[i] # NULL
    THEN Outcome(h, "already_owned", FALSE, <<"image:write">>, FALSE, TRUE)
    ELSE
        LET res == NativeImagePutToRaster_internal(h, i, r, fb)
        IN  Outcome(res.h, res.result, FALSE, <<"image:write">>, res.unset, TRUE)

\* readFromStream that does not clear the image first.
readFromStream_noClear(h, i, throws, pix, pal) ==
    IF throws
    THEN Outcome(h, "codec_throw", FALSE, <<"image:write">>, FALSE, TRUE)
    ELSE
        LET h2 == ReadNativeImage(h, i, pix, pal)
        IN  Outcome([h2 EXCEPT !.hasPaletteDataRef[i] = FALSE,
                               !.hasPixelDataRef[i] = FALSE],
                    "ok", FALSE, <<"image:write">>, FALSE, TRUE)

\* NativeImage::readFromStream.
readFromStream(h, i, throws, pix, pal) ==
    LET h1 == clearImageData(h, i)
    IN  IF throws
        THEN Outcome(h1, "codec_throw", FALSE, <<"image:write">>, FALSE, TRUE)
        ELSE
            LET h2 == ReadNativeImage(h1, i, pix, pal)
            IN  Outcome([h2 EXCEPT !.hasPaletteDataRef[i] = FALSE,
                                   !.hasPixelDataRef[i] = FALSE],
                        "ok", FALSE, <<"image:write">>, FALSE, TRUE)

\* NativeImage::writeToStream.
writeToStream(h, i, throws) ==
    Outcome(h, IF throws THEN "codec_throw" ELSE "ok", FALSE,
            <<"image:read">>, FALSE, TRUE)

\* ------------------------------------------------------ the operations

\* The codec outcomes an operation is run with (a codec that throws
\* reports no feedback).
FeedbackSet ==
    {fb \in Feedbacks :
        fb.throws => ~fb.hasDirectlyAcquired /\ ~fb.hasDirectlyAcquiredPalette}

NoFeedback ==
    [throws |-> FALSE, hasDirectlyAcquired |-> FALSE,
     hasDirectlyAcquiredPalette |-> FALSE]

Throwing(throws) ==
    [NoFeedback EXCEPT !.throws = throws]

\* The fields of image i and the counters and data of raster r, as they
\* are in heap h (NULL: no image, or no raster, is involved).
Snapshot(h, i, r) ==
    [ pixelOwner        |-> IF i = NULL THEN NULL ELSE h.pixelOwner[i],
      externalRasterRef |-> IF i = NULL THEN FALSE ELSE h.externalRasterRef[i],
      hasPixelDataRef   |-> IF i = NULL THEN FALSE ELSE h.hasPixelDataRef[i],
      hasPaletteDataRef |-> IF i = NULL THEN FALSE ELSE h.hasPaletteDataRef[i],
      imgPixels         |-> IF i = NULL THEN NoData ELSE h.imgPixels[i],
      imgPalette        |-> IF i = NULL THEN NoData ELSE h.imgPalette[i],
      refCount          |-> IF r = NULL THEN 0 ELSE h.refCount[r],
      constRefCount     |-> IF r = NULL THEN 0 ELSE h.constRefCount[r],
      texPixels         |-> IF r = NULL THEN NoData ELSE h.texPixels[r],
      texPalette        |-> IF r = NULL THEN NoData ELSE h.texPalette[r] ]

\* What lastOp keeps of the operation before the last one: whether it was
\* a successful fetch (that borrowed, or that copied) or a clearImageData
\* (that released a raster, or found none).
Earlier(rec) ==
    IF rec.op \in {"fetch", "fetchNoLock"} /\ rec.result = "ok"
    THEN IF rec.needsRef THEN "fetch_borrowed" ELSE "fetch_copied"
    ELSE IF rec.op = "clear"
    THEN IF rec.pre.pixelOwner # NULL THEN "clear_released" ELSE "clear"
    ELSE "other"

\* A traced run records in lastOp the operation, its arguments, the codec
\* feedback, its outcome, the state of image i and raster r before it, and
\* the kind of the operation before it.
Trace(op, i, r, fb, out) ==
    lastOp' = IF traced
              THEN [ op        |-> op,
                     img       |-> i,
                     raster    |-> r,
                     result    |-> out.result,
                     needsRef  |-> out.needsRef,
                     locks     |-> out.locks,
                     unset     |-> out.unset,
                     asserts   |-> out.asserts,
                     direct    |-> fb.hasDirectlyAcquired,
                     directPal |-> fb.hasDirectlyAcquiredPalette,
                     pre       |-> Snapshot(Heap, i, r),
                     after     |-> Earlier(lastOp) ]
              ELSE lastOp

\* Runs an operation of the native image layer: the heap becomes the one
\* of its outcome.
Run(op, i, r, fb, out) ==
    /\ Commit(out.h)
    /\ Trace(op, i, r, fb, out)
    /\ UNCHANGED <<callerConstRefs, streamImages, traced>>
    /\ UNCHANGED <<regVars, tiffVars, thrVars, decVars, pvrVars, auxVars>>

\* Images that borrow from raster r on a const-reference of the caller.
ExternalBorrowers(r) ==
    {i \in Images : imgAlive[i] /\ pixelOwner[i] = r /\ externalRasterRef[i]}

\* Images that borrow from raster r on a const-reference of their own.
InternalBorrowers(r) ==
    {i \in Images : imgAlive[i] /\ pixelOwner[i] = r /\ ~externalRasterRef[i]}

\* Images that hold an owning reference on raster r.
Borrowers(r) ==
    {i \in Images : imgAlive[i] /\ pixelOwner[i] = r}

\* Const-references on raster r that nobody holds any more.
LeakedConstRefs(r) ==
    constRefCount[r] - callerConstRefs[r] - Cardinality(InternalBorrowers(r))

\* Owning references on raster r that nobody holds any more (the texture
\* dictionary holds one).
LeakedRefs(r) ==
    refCount[r] - 1 - Cardinality(Borrowers(r))

\* CreateNativeImage: a new, empty image (no image if the codec's
\* constructor throws).
CreateNativeImage(i) ==
    /\ ~imgAlive[i]
    /\ \E throws \in BOOLEAN :
          Run("create", i, NULL, Throwing(throws), Construct(Heap, i, throws))

\* Cloning an image through the type system (CopyConstruct).
CloneNativeImage(i, src) ==
    /\ ~imgAlive[i]
    /\ imgAlive[src]
    /\ pixelOwner[src] # NULL =>
          /\ LeakedConstRefs(pixelOwner[src]) < MaxLeaks
          /\ LeakedRefs(pixelOwner[src]) < MaxLeaks
    /\ \E throws \in BOOLEAN :
          Run("copy", i, pixelOwner[src], Throwing(throws),
              CopyConstruct(Heap, i, src, throws))

\* DeleteNativeImage: destroys the image through the type system (Destruct).
DeleteNativeImage(i) ==
    /\ imgAlive[i]
    /\ Run("delete", i, pixelOwner[i], NoFeedback, Destruct(Heap, i))

\* A call of NativeImagePrivate::clearImageData on its own.
CallClearImageData(i) ==
    /\ imgAlive[i]
    /\ Run("clear", i, pixelOwner[i], NoFeedback,
           Outcome(clearImageData(Heap, i), "ok", FALSE, <<>>, FALSE, TRUE))

\* image->fetchFromRaster( raster ).
CallFetchFromRaster(i, r) ==
    /\ imgAlive[i]
    /\ \E fb \in FeedbackSet :
          Run("fetch", i, r, fb, fetchFromRaster(Heap, i, r, fb))

\* NativeImageFetchFromRasterNoLock( image, raster, .. ): the caller holds
\* the read lock of the raster and a const-reference that no image uses.
CallFetchFromRasterNoLock(i, r) ==
    /\ imgAlive[i]
    /\ callerConstRefs[r] > Cardinality(ExternalBorrowers(r) \ {i})
    /\ \E fb \in FeedbackSet :
          Run("fetchNoLock", i, r, fb,
              NativeImageFetchFromRasterNoLock(Heap, i, r, fb))

\* image->putToRaster( raster ).
CallPutToRaster(i, r) ==
    /\ imgAlive[i]
    /\ \E fb \in FeedbackSet :
          Run("put", i, r, fb, putToRaster(Heap, i, r, fb))

\* NativeImagePutToRasterNoLock( image, raster ): the caller holds the
\* write lock of the raster.
CallPutToRasterNoLock(i, r) ==
    /\ imgAlive[i]
    /\ \E fb \in FeedbackSet :
          Run("putNoLock", i, r, fb,
              NativeImagePutToRasterNoLock(Heap, i, r, fb))

\* image->readFromStream( stream ): the stream holds some image, or the
\* codec rejects it.
CallReadFromStream(i) ==
    /\ imgAlive[i]
    /\ \/ Run("read", i, pixelOwner[i], Throwing(TRUE),
              readFromStream(Heap, i, TRUE, NoData, NoData))
       \/ \E img \in streamImages :
              Run("read", i, pixelOwner[i], NoFeedback,
                  readFromStream(Heap, i, FALSE, img[1], img[2]))

\* image->writeToStream( stream ).
CallWriteToStream(i) ==
    /\ imgAlive[i]
    /\ \E throws \in BOOLEAN :
          Run("write", i, pixelOwner[i], Throwing(throws),
              writeToStream(Heap, i, throws))

\* A caller takes a const-reference on a raster itself (as it must before
\* NativeImageFetchFromRasterNoLock).
CallerAddConstRef(r) ==
    /\ callerConstRefs[r] < MaxCallerRefs
    /\ callerConstRefs' = [callerConstRefs EXCEPT ![r] = @ + 1]
    /\ Commit(addConstRef(Heap, r))
    /\ Trace("callerAddConstRef", NULL, r, NoFeedback,
             Outcome(Heap, "ok", FALSE, <<>>, FALSE, TRUE))
    /\ UNCHANGED <<streamImages, traced>>
    /\ UNCHANGED <<regVars, tiffVars, thrVars, decVars, pvrVars, auxVars>>

\* A caller gives back a const-reference that no image borrows on.
CallerRemConstRef(r) ==
    /\ callerConstRefs[r] > Cardinality(ExternalBorrowers(r))
    /\ callerConstRefs' = [callerConstRefs EXCEPT ![r] = @ - 1]
    /\ Commit(remConstRef(Heap, r))
    /\ Trace("callerRemConstRef", NULL, r, NoFeedback,
             Outcome(Heap, "ok", FALSE, <<>>, FALSE, TRUE))
    /\ UNCHANGED <<streamImages, traced>>
    /\ UNCHANGED <<regVars, tiffVars, thrVars, decVars, pvrVars, auxVars>>

\* The locks the caller of an operation holds when it enters it: the NoLock
\* variants are to be called under the lock of the raster only.
HeldOnEntry(op) ==
    IF op = "fetchNoLock" THEN <<"raster:read">>
    ELSE IF op = "putNoLock" THEN <<"raster:write">>
    ELSE <<>>

\* The locks a thread requests through the last operation, in order, those
\* its caller took for it included.
LockTrace ==
    HeldOnEntry(lastOp.op) \o lastOp.locks

\* ------------------------------------- registry of native image types

\* The registry: the format list, the types registered under the native
\* image base type, and the manData of the managers.
Registry ==
    [ formatsList |-> formatsList, typeSystem |-> typeSystem,
      manData |-> manData ]

\* The managers that are linked into a list.
Linked(list) ==
    {list[k] : k \in DOMAIN list}

\* LIST_INSERT( root, node ): the node is linked into the list; a traversal
\* from the root meets the nodes in the order of their insertion.
LIST_INSERT(list, node) ==
    Append(list, node)

\* LIST_REMOVE( node ): the node is unlinked.
LIST_REMOVE(list, node) ==
    SelectSeq(list, LAMBDA x : x # node)

\* RwTypeSystem::RegisterCommonTypeInterface throws
\* type_name_conflict_exception when the name exists under the base type.
NameConflict(g, typeName) ==
    g.typeSystem[typeName] # NULL

\* RwTypeSystem::RegisterCommonTypeInterface, successful: the type exists,
\* and its interface leads to the manager.
RegisterCommonTypeInterface(g, typeName, typeManager) ==
    [g EXCEPT !.typeSystem[typeName] = typeManager]

\* RwTypeSystem::FindTypeInfo followed by the typeMan of its interface.
FindTypeInfo(g, typeName) ==
    g.typeSystem[typeName]

\* RwTypeSystem::DeleteType.
DeleteType(g, typeName) ==
    [g EXCEPT !.typeSystem[typeName] = NULL]

\* The result of a registry call: the registry it leaves, what it returns,
\* and whether an exception left it.
RegResult(g, success, escaped) ==
    [ g |-> g, success |-> success, escaped |-> escaped ]

\* RegisterNativeImageType that fills in the manData and links the manager
\* before it registers the type.
RegisterNativeImageType_linkFirst(g, typeManager, typeName, friendlyName) ==
    IF g.manData[typeManager].isRegistered # FALSE
    THEN RegResult(g, FALSE, FALSE)
    ELSE
        LET g1 == [g EXCEPT !.manData[typeManager].imgType = typeName,
                            !.manData[typeManager].friendlyName = friendlyName,
                            !.formatsList = LIST_INSERT(@, typeManager)]
        IN  IF NameConflict(g, typeName)
            THEN RegResult(g1, FALSE, FALSE)
            ELSE RegResult(RegisterCommonTypeInterface(g1, typeName, typeManager),
                           TRUE, FALSE)

\* RegisterNativeImageType (friendlyName stands for the friendly name, the
\* extension table and the supported-texture table it is passed with).
RegisterNativeImageType(g, typeManager, typeName, friendlyName) ==
    IF g.manData[typeManager].isRegistered # FALSE
    THEN RegResult(g, FALSE, FALSE)
    ELSE IF NameConflict(g, typeName)
    THEN \* thrown by RegisterCommonTypeInterface, passed on by the inner
         \* handler, caught by the handler of type_name_conflict_exception
         LET thrown == "type_name_conflict"
             caught == (thrown = "type_name_conflict")
         IN  RegResult(g, FALSE, ~caught)
    ELSE
        LET g1 == RegisterCommonTypeInterface(g, typeName, typeManager)
            g2 == [g1 EXCEPT !.manData[typeManager].imgType = typeName,
                             !.manData[typeManager].friendlyName = friendlyName]
        IN  RegResult([g2 EXCEPT !.formatsList = LIST_INSERT(@, typeManager)],
                      TRUE, FALSE)

\* UnregisterNativeImageType that unlinks the manager but does not delete
\* the type.
UnregisterNativeImageType_keepsType(g, typeName) ==
    LET typeMan == FindTypeInfo(g, typeName)
    IN  IF typeMan = NULL
        THEN RegResult(g, FALSE, FALSE)
        ELSE RegResult([g EXCEPT !.formatsList = LIST_REMOVE(@, typeMan),
                                 !.manData[typeMan].isRegistered = FALSE],
                       TRUE, FALSE)

\* UnregisterNativeImageType.
UnregisterNativeImageType(g, typeName) ==
    LET typeMan == FindTypeInfo(g, typeName)
    IN  IF typeMan = NULL
        THEN RegResult(g, FALSE, FALSE)
        ELSE
            LET g1 == [g EXCEPT !.formatsList = LIST_REMOVE(@, typeMan),
                                !.manData[typeMan].isRegistered = FALSE]
            IN  RegResult(DeleteType(g1, typeName), TRUE, FALSE)

\* The rest of the loop of GetNativeImageTypeForStream from list item k on:
\* cur is the position of the cursor, needsReset the flag of the code,
\* probed the probes made so far, each with the position it started at.
\* accepts holds the managers whose IsStreamNativeImage accepts, moves the
\* position at which each probe leaves the cursor.
RECURSIVE ProbeLoop(_, _, _, _, _, _, _, _)
ProbeLoop(g, accepts, moves, streamObjectPos, k, cur, needsReset, probed) ==
    IF k > Len(g.formatsList)
    THEN [ result |-> NULL,
           pos |-> IF needsReset THEN streamObjectPos ELSE cur,
           probed |-> probed ]
    ELSE
        LET item == g.formatsList[k]
            at == IF needsReset THEN streamObjectPos ELSE cur
            isCompatible == item \in accepts
        IN  IF isCompatible
            THEN [ result |-> g.manData[item].imgType,
                   pos |-> streamObjectPos,
                   probed |-> Append(probed, <<item, at>>) ]
            ELSE ProbeLoop(g, accepts, moves, streamObjectPos, k + 1,
                           moves[item], TRUE, Append(probed, <<item, at>>))

\* The loop without the seek in front of a probe.
RECURSIVE ProbeLoop_noSeek(_, _, _, _, _, _, _, _)
ProbeLoop_noSeek(g, accepts, moves, streamObjectPos, k, cur, needsReset, probed) ==
    IF k > Len(g.formatsList)
    THEN [ result |-> NULL,
           pos |-> IF needsReset THEN streamObjectPos ELSE cur,
           probed |-> probed ]
    ELSE
        LET item == g.formatsList[k]
            isCompatible == item \in accepts
        IN  IF isCompatible
            THEN [ result |-> g.manData[item].imgType,
                   pos |-> streamObjectPos,
                   probed |-> Append(probed, <<item, cur>>) ]
            ELSE ProbeLoop_noSeek(g, accepts, moves, streamObjectPos, k + 1,
                                  moves[item], TRUE, Append(probed, <<item, cur>>))

\* The loop that does not stop at the first compatible type: it goes on and
\* returns the last one.
RECURSIVE ProbeLoop_lastMatch(_, _, _, _, _, _, _, _)
ProbeLoop_lastMatch(g, accepts, moves, streamObjectPos, k, found, needsReset, probed) ==
    IF k > Len(g.formatsList)
    THEN [ result |-> found, pos |-> streamObjectPos, probed |-> probed ]
    ELSE
        LET item == g.formatsList[k]
        IN  ProbeLoop_lastMatch(g, accepts, moves, streamObjectPos, k + 1,
                                IF item \in accepts
                                THEN g.manData[item].imgType ELSE found,
                                TRUE, Append(probed, <<item, streamObjectPos>>))

\* GetNativeImageTypeForStream without the seek in front of a probe.
GetNativeImageTypeForStream_noSeek(g, accepts, moves, pos) ==
    ProbeLoop_noSeek(g, accepts, moves, pos, 1, pos, FALSE, <<>>)

\* GetNativeImageTypeForStream that returns the last compatible type.
GetNativeImageTypeForStream_lastMatch(g, accepts, moves, pos) ==
    ProbeLoop_lastMatch(g, accepts, moves, pos, 1, NULL, FALSE, <<>>)

\* GetNativeImageTypeForStream, called with the cursor at pos.
GetNativeImageTypeForStream(g, accepts, moves, pos) ==
    ProbeLoop(g, accepts, moves, pos, 1, pos, FALSE, <<>>)

\* No GetNativeImageTypeForStream call to speak of.
NoProbe ==
    [ called |-> FALSE, result |-> NULL, probed |-> <<>>, posBefore |-> 0,
      moves |-> [m \in Managers |-> 0] ]

\* No registry call to speak of.
NoReg ==
    [ op |-> "none", man |-> NULL, name |-> NULL, success |-> FALSE,
      escaped |-> FALSE, conflict |-> FALSE, preList |-> <<>>,
      preData |-> [isRegistered |-> FALSE, imgType |-> NULL, friendlyName |-> NULL],
      chain |-> 0 ]

\* A registry call is committed: the registry becomes the one of its
\* result; the stream is left alone.
CommitRegistry(res) ==
    /\ formatsList' = res.g.formatsList
    /\ typeSystem' = res.g.typeSystem
    /\ manData' = res.g.manData
    /\ lastProbe' = NoProbe
    /\ UNCHANGED <<streamPos, probeAccepts>>
    /\ UNCHANGED <<imgVars, tiffVars, thrVars, decVars, pvrVars, auxVars>>

\* A codec registers its manager, which is not registered at that time,
\* under a type name.  lastReg.chain counts how far the calls have come in
\* the sequence register (name free), unregister, register again.
CallRegisterNativeImageType(typeManager, typeName, friendlyName) ==
    /\ typeManager \notin Linked(formatsList)
    /\ LET res == RegisterNativeImageType(Registry, typeManager, typeName,
                                          friendlyName)
       IN  /\ CommitRegistry(res)
           /\ regOrder' = IF res.success THEN Append(regOrder, typeManager)
                                         ELSE regOrder
           /\ lastReg' =
                 [ op |-> "register", man |-> typeManager, name |-> typeName,
                   success |-> res.success, escaped |-> res.escaped,
                   conflict |-> NameConflict(Registry, typeName),
                   preList |-> formatsList, preData |-> manData[typeManager],
                   chain |-> IF lastReg.chain = 2 /\ lastReg.man = typeManager
                                /\ lastReg.name = typeName
                             THEN 3
                             ELSE IF typeSystem[typeName] = NULL THEN 1 ELSE 0 ]

\* A codec registers its manager once more while it is registered.  The
\* node of a manager that LIST_INSERT links a second time is met twice by a
\* traversal of the list.
CallRegisterNativeImageTypeAgain(typeManager, typeName, friendlyName) ==
    /\ typeManager \in Linked(formatsList)
    /\ LET res == RegisterNativeImageType(Registry, typeManager, typeName,
                                          friendlyName)
       IN  /\ CommitRegistry(res)
           /\ regOrder' = IF res.success THEN Append(regOrder, typeManager)
                                         ELSE regOrder
           /\ lastReg' =
                 [ op |-> "register", man |-> typeManager, name |-> typeName,
                   success |-> res.success, escaped |-> res.escaped,
                   conflict |-> NameConflict(Registry, typeName),
                   preList |-> formatsList, preData |-> manData[typeManager],
                   chain |-> 0 ]

\* A type name is unregistered.
CallUnregisterNativeImageType(typeName) ==
    LET res == UnregisterNativeImageType(Registry, typeName)
    IN  /\ CommitRegistry(res)
        /\ regOrder' = IF res.success
                       THEN SelectSeq(regOrder, LAMBDA x : x # typeSystem[typeName])
                       ELSE regOrder
        /\ lastReg' =
              [ op |-> "unregister",
                man |-> IF lastReg.op = "register" THEN lastReg.man
                                                   ELSE typeSystem[typeName],
                name |-> typeName,
                success |-> res.success, escaped |-> res.escaped,
                conflict |-> FALSE,
                preList |-> formatsList,
                preData |-> NoReg.preData,
                chain |-> IF lastReg.op = "register" /\ lastReg.chain \in {1, 3}
                             /\ lastReg.name = typeName
                          THEN 2 ELSE 0 ]

\* GetNativeImageTypeForStream( stream ): every probe leaves the cursor
\* wherever it stopped reading.
CallGetNativeImageTypeForStream ==
    \E moves \in [Managers -> Positions] :
        LET res == GetNativeImageTypeForStream(Registry, probeAccepts, moves,
                                               streamPos)
        IN  /\ streamPos' = res.pos
            /\ lastProbe' = [ called |-> TRUE, result |-> res.result,
                              probed |-> res.probed, posBefore |-> streamPos,
                              moves |-> moves ]
            /\ UNCHANGED <<formatsList, typeSystem, manData, regOrder,
                           probeAccepts, lastReg>>
            /\ UNCHANGED <<imgVars, tiffVars, thrVars, decVars, pvrVars, auxVars>>

\* A client opens another stream, or seeks: the contents decide which
\* probes accept.
OpenStream(accepts, pos) ==
    /\ <<accepts, pos>> # <<probeAccepts, streamPos>>
    /\ probeAccepts' = accepts
    /\ streamPos' = pos
    /\ lastProbe' = NoProbe
    /\ UNCHANGED <<formatsList, typeSystem, manData, regOrder, lastReg>>
    /\ UNCHANGED <<imgVars, tiffVars, thrVars, decVars, pvrVars, auxVars>>

\* The registry after registerNativeImagePluginEnvironment: no type is
\* registered; a stream is open at its start.
InitRegistry ==
    /\ formatsList = <<>>
    /\ typeSystem = [n \in TypeNames |-> NULL]
    /\ manData = [m \in Managers |-> NoReg.preData]
    /\ regOrder = <<>>
    /\ streamPos = 0
    /\ probeAccepts = {}
    /\ lastProbe = NoProbe
    /\ lastReg = NoReg

\* ----------------------------------------------------- the TIFF probe

\* sizeof( tiff_header ), sizeof( tiff_uint16 ), sizeof( tiff_ifd_entry ),
\* sizeof( tiff_uint32 ), in bytes.
SizeofHeader == 8

SizeofUint16 == 2

SizeofIfdEntry == 12

SizeofUint32 == 4

\* A number of n bytes, least significant byte first.
RECURSIVE LittleEndian(_, _)
LittleEndian(v, n) ==
    IF n = 0 THEN <<>> ELSE <<v % 256>> \o LittleEndian(v \div 256, n - 1)

\* The bytes of a sequence in reverse order.
Reverse(bytes) ==
    [k \in DOMAIN bytes |-> bytes[Len(bytes) + 1 - k]]

\* endian::little_endian: the number that bytes hold, least significant
\* byte first.
RECURSIVE FromLittleEndian(_)
FromLittleEndian(bytes) ==
    IF bytes = <<>> THEN 0
    ELSE bytes[1] + 256 * FromLittleEndian(Tail(bytes))

\* tiff_number_format::get_uint16 and get_uint32.
get_uint(bigEndian, bytes) ==
    IF bigEndian THEN FromLittleEndian(Reverse(bytes))
                 ELSE FromLittleEndian(bytes)

\* Stream::size.
StreamSize(stream) ==
    Len(stream)

\* Stream::read( buf, n ) at position pos: the bytes that are there, at
\* most n of them (a short read at the end of the stream).
StreamRead(stream, pos, n) ==
    LET avail == IF pos >= Len(stream) THEN 0 ELSE Len(stream) - pos
        actual == IF n <= avail THEN n ELSE avail
    IN  [ count |-> actual, data |-> SubSeq(stream, pos + 1, pos + actual) ]

\* The size of an item of a field type; 0 for a type that is not known.
FieldItemSize(field_type) ==
    IF field_type = 1 THEN 1            \* FIELD_BYTE
    ELSE IF field_type = 2 THEN 1       \* FIELD_ASCII
    ELSE IF field_type = 3 THEN 2       \* FIELD_SHORT
    ELSE IF field_type = 4 THEN 4       \* FIELD_LONG
    ELSE IF field_type = 5 THEN 8       \* FIELD_RATIONAL
    ELSE 0

\* The check of one IFD entry (12 bytes: tag, field_type, num_values,
\* data_offset): whether the data it describes is in the stream.
\* The check of one IFD entry that forgets where the data is.
EntryHasTheData_ignoresOffset(bigEndian, entry, tiff_size) ==
    LET field_type == get_uint(bigEndian, SubSeq(entry, 3, 4))
        numValues == get_uint(bigEndian, SubSeq(entry, 5, 8))
    IN  FieldItemSize(field_type) * numValues <= tiff_size

EntryHasTheData(bigEndian, entry, tiff_size) ==
    LET field_type == get_uint(bigEndian, SubSeq(entry, 3, 4))
        field_item_size == FieldItemSize(field_type)
        numValues == get_uint(bigEndian, SubSeq(entry, 5, 8))
        actualDataSize == field_item_size * numValues
        data_start == get_uint(bigEndian, SubSeq(entry, 9, 12))
    IN  \/ field_item_size = 0
        \/ actualDataSize <= 4
        \/ data_start + actualDataSize <= tiff_size

\* IsStreamCompatible returns.
TiffReturn(value) ==
    /\ tiffPc' = "done"
    /\ tiffResult' = value

\* IsStreamCompatible is entered: tell() and size().
TiffEnter ==
    /\ tiffPc = "idle"
    /\ tiffPc' = "header"
    /\ tiffFrame' = [tiffFrame EXCEPT
                        !.tiff_start = tiffPos,
                        !.tiff_size = StreamSize(tiffStream) - tiffPos]
    /\ UNCHANGED <<tiffStream, tiffPos, tiffResult>>
    /\ UNCHANGED <<imgVars, regVars, thrVars, decVars, pvrVars, auxVars>>

\* The header is read and checked; the cursor is sent to the first IFD.
TiffReadHeader ==
    /\ tiffPc = "header"
    /\ LET rd == StreamRead(tiffStream, tiffPos, SizeofHeader)
           byte_order == SubSeq(rd.data, 1, 2)
           is_big_endian == (FromLittleEndian(byte_order) = 19789)
           knownOrder == FromLittleEndian(byte_order) \in {18761, 19789}
           fourtytwo == get_uint(is_big_endian, SubSeq(rd.data, 3, 4))
           imageFileDirectoryOffset ==
               get_uint(is_big_endian, SubSeq(rd.data, 5, 8))
       IN  IF rd.count # SizeofHeader
           THEN /\ tiffPos' = tiffPos + rd.count
                /\ TiffReturn(FALSE)
                /\ UNCHANGED tiffFrame
           ELSE IF ~knownOrder \/ fourtytwo # 42
           THEN /\ tiffPos' = tiffPos + rd.count
                /\ TiffReturn(FALSE)
                /\ UNCHANGED tiffFrame
           ELSE /\ tiffPos' = tiffFrame.tiff_start + imageFileDirectoryOffset
                /\ tiffFrame' = [tiffFrame EXCEPT !.bigEndian = is_big_endian]
                /\ tiffPc' = "count"
                /\ UNCHANGED tiffResult
    /\ UNCHANGED tiffStream
    /\ UNCHANGED <<imgVars, regVars, thrVars, decVars, pvrVars, auxVars>>

\* The number of entries of an IFD is read.
TiffReadCount ==
    /\ tiffPc = "count"
    /\ LET rd == StreamRead(tiffStream, tiffPos, SizeofUint16)
           dirEntryCount == get_uint(tiffFrame.bigEndian, rd.data)
       IN  /\ tiffPos' = tiffPos + rd.count
           /\ IF rd.count # SizeofUint16 \/ dirEntryCount = 0
              THEN TiffReturn(FALSE) /\ UNCHANGED tiffFrame
              ELSE /\ tiffFrame' = [tiffFrame EXCEPT
                                       !.dirEntryCount = dirEntryCount,
                                       !.n = 0]
                   /\ tiffPc' = "entry"
                   /\ UNCHANGED tiffResult
    /\ UNCHANGED tiffStream
    /\ UNCHANGED <<imgVars, regVars, thrVars, decVars, pvrVars, auxVars>>

\* One entry of the IFD is read and checked; after the last one the IFD
\* counts as valid.
TiffReadEntry ==
    /\ tiffPc = "entry"
    /\ LET rd == StreamRead(tiffStream, tiffPos, SizeofIfdEntry)
       IN  /\ tiffPos' = tiffPos + rd.count
           /\ IF rd.count # SizeofIfdEntry
              THEN TiffReturn(FALSE) /\ UNCHANGED tiffFrame
              ELSE IF ~EntryHasTheData(tiffFrame.bigEndian, rd.data,
                                       tiffFrame.tiff_size)
              THEN TiffReturn(FALSE) /\ UNCHANGED tiffFrame
              ELSE /\ tiffFrame' =
                         [tiffFrame EXCEPT
                             !.n = @ + 1,
                             !.didHaveAtleastOneIFD =
                                 @ \/ (tiffFrame.n + 1 = tiffFrame.dirEntryCount)]
                   /\ tiffPc' = IF tiffFrame.n + 1 < tiffFrame.dirEntryCount
                                THEN "entry" ELSE "next"
                   /\ UNCHANGED tiffResult
    /\ UNCHANGED tiffStream
    /\ UNCHANGED <<imgVars, regVars, thrVars, decVars, pvrVars, auxVars>>

\* The pointer to the next IFD is read: zero ends the chain, anything else
\* is where the cursor is sent to.
TiffReadNext ==
    /\ tiffPc = "next"
    /\ LET rd == StreamRead(tiffStream, tiffPos, SizeofUint32)
           nextIFDPointer == get_uint(tiffFrame.bigEndian, rd.data)
       IN  IF rd.count # SizeofUint32
           THEN /\ tiffPos' = tiffPos + rd.count
                /\ TiffReturn(FALSE)
                /\ UNCHANGED tiffFrame
           ELSE IF nextIFDPointer = 0
           THEN /\ tiffPos' = tiffPos + rd.count
                /\ tiffFrame' = [tiffFrame EXCEPT !.hasTerminatedProperly = TRUE]
                /\ TiffReturn(tiffFrame.didHaveAtleastOneIFD)
           ELSE /\ tiffPos' = tiffFrame.tiff_start + nextIFDPointer
                /\ tiffPc' = "count"
                /\ UNCHANGED <<tiffFrame, tiffResult>>
    /\ UNCHANGED tiffStream
    /\ UNCHANGED <<imgVars, regVars, thrVars, decVars, pvrVars, auxVars>>

\* The streams the probe is run on: a prefix of PrefixLen bytes, a header, a
\* first IFD and possibly a second one, cut off somewhere.
PrefixLen == 2

FarOffset == 200

MaxEntries == 2

\* A number of n bytes in the byte order of the file.
Encode(bigEndian, v, n) ==
    IF bigEndian THEN Reverse(LittleEndian(v, n)) ELSE LittleEndian(v, n)

\* The byte order marks "II" and "MM", and one that is neither.
ByteOrderMarks == {<<73, 73>>, <<77, 77>>, <<0, 0>>}

IsBigEndianMark(mark) ==
    mark = <<77, 77>>

\* Where the first directory ends, from the start of the file.
EndOfFirstIfd(kinds) ==
    SizeofHeader + SizeofUint16 + Len(kinds) * SizeofIfdEntry + SizeofUint32

\* The entries a directory is made of, as (field_type, num_values,
\* data_offset): an unknown type, four bytes held in the entry itself, eight
\* bytes at the start of the file, eight bytes far behind its end, eight
\* bytes that end one byte behind a file of one directory of one entry.
EntryKinds == {<<0, 2, FarOffset>>, <<1, 4, FarOffset>>,
               <<4, 2, 0>>, <<4, 2, FarOffset>>,
               <<4, 2, EndOfFirstIfd(<<1>>) - 7>>}

EntryBytes(bigEndian, kind) ==
    Encode(bigEndian, 256, SizeofUint16)
        \o Encode(bigEndian, kind[1], SizeofUint16)
        \o Encode(bigEndian, kind[2], SizeofUint32)
        \o Encode(bigEndian, kind[3], SizeofUint32)

\* The directories: none, one or MaxEntries entries (the first one good).
EntryLists ==
    {<<>>} \cup {<<k>> : k \in EntryKinds}
           \cup {[i \in 1..MaxEntries |-> IF i < MaxEntries THEN <<4, 2, 0>> ELSE k] :
                    k \in EntryKinds}

RECURSIVE EntriesBytes(_, _)
EntriesBytes(bigEndian, kinds) ==
    IF kinds = <<>> THEN <<>>
    ELSE EntryBytes(bigEndian, Head(kinds))
            \o EntriesBytes(bigEndian, Tail(kinds))

IfdBytes(bigEndian, kinds, next) ==
    Encode(bigEndian, Len(kinds), SizeofUint16)
        \o EntriesBytes(bigEndian, kinds)
        \o Encode(bigEndian, next, SizeofUint32)

\* A whole file: the header says the byte order mark, 42 in magicOrder's
\* byte order and where the first directory is; the first directory points
\* to nothing (0), to itself, behind the end of the file, or to a second
\* directory of one entry that ends the chain.
TiffFile(mark, magic, magicBig, ifdOffset, kinds, next) ==
    LET big == IsBigEndianMark(mark)
    IN  mark \o Encode(magicBig, magic, SizeofUint16)
             \o Encode(big, ifdOffset, SizeofUint32)
             \o IfdBytes(big, kinds, next)
             \o (IF next = EndOfFirstIfd(kinds)
                 THEN IfdBytes(big, <<<<1, 4, FarOffset>>>>, 0)
                 ELSE <<>>)

TiffFiles ==
    { TiffFile(mark, magic, magicBig, ifdOffset, kinds, next) :
        mark \in ByteOrderMarks,
        magic \in {42, 43},
        magicBig \in BOOLEAN,
        ifdOffset \in {0, SizeofHeader, FarOffset},
        kinds \in EntryLists,
        next \in {0, SizeofHeader, FarOffset} \cup
                 {EndOfFirstIfd(k) : k \in EntryLists} }

\* A file cut off after keep bytes, or cut bytes before its end.
CutOff(file, keep, cut) ==
    LET upTo == IF keep < Len(file) THEN keep ELSE Len(file)
        len == IF cut < upTo THEN upTo - cut ELSE 0
    IN  SubSeq(file, 1, len)

TiffKeeps == {0, 4, 9, 16, 1000}

TiffCuts == {0, 2}

TiffStreams(start) ==
    { [k \in 1..start |-> 0] \o CutOff(file, keep, cut) :
        file \in TiffFiles,
        keep \in TiffKeeps,
        cut \in TiffCuts }

NoFrame ==
    [ tiff_start |-> 0, tiff_size |-> 0, bigEndian |-> FALSE,
      dirEntryCount |-> 0, n |-> 0,
      hasTerminatedProperly |-> FALSE, didHaveAtleastOneIFD |-> FALSE ]

\* No TIFF probe is running and there is no stream for it.
InitTiffIdle ==
    /\ tiffStream = <<>>
    /\ tiffPos = 0
    /\ tiffPc = "idle"
    /\ tiffFrame = NoFrame
    /\ tiffResult = FALSE

\* ------------------------------------------------- threads and locks

Threads == 1..NumThreads

\* imgEnv->lockImgFmtConsist, GetNativeImageLock( image ), GetRasterLock(
\* raster ).
RegistryLock == <<"registry", 0>>

ImageLock(i) == <<"image", i>>

RasterLock(r) == <<"raster", r>>

NoCall ==
    [ op |-> "none", a |-> 0, b |-> 0, c |-> 0 ]

\* The threads that hold a lock in a mode.
Holders(lock, mode) ==
    {t \in Threads : \E k \in DOMAIN thrHeld[t] : thrHeld[t][k] = <<lock, mode>>}

\* A reader-writer lock: reads proceed together, a write is exclusive.
CanEnter(lock, mode) ==
    /\ Holders(lock, "write") = {}
    /\ mode = "write" => Holders(lock, "read") = {}

\* scoped_rwlock_reader / scoped_rwlock_writer is constructed: the thread
\* waits until it can enter.
EnterCriticalRegion(t, lock, mode) ==
    /\ CanEnter(lock, mode)
    /\ thrHeld' = [thrHeld EXCEPT ![t] = Append(@, <<lock, mode>>)]

\* The scoped lock constructed last is destructed.
LeaveCriticalRegion(t) ==
    thrHeld' = [thrHeld EXCEPT ![t] = SubSeq(@, 1, Len(@) - 1)]

\* The call of a thread has returned, or has thrown to its caller.
ThreadReturns(t) ==
    /\ thrPc' = [thrPc EXCEPT ![t] = "idle"]
    /\ thrCall' = [thrCall EXCEPT ![t] = NoCall]
    /\ thrCallsLeft' = [thrCallsLeft EXCEPT ![t] = @ - 1]

\* -- the registry under threads

\* The queries that traverse the format list under the read lock in their
\* own body, the one that traverses it without, the three that look a
\* manager up through GetNativeImageTypeManagerByName, and the two writers.
LockingQueries ==
    {"GetNativeImageTypeForStream", "GetNativeImageTypesForNativeTexture"}

UnlockedQueries ==
    {"GetRegisteredNativeImageTypes"}

ByNameQueries ==
    {"DoesNativeImageSupportNativeTextureFriendly",
     "GetNativeImageTypeNameFromFriendlyName", "GetNativeImageInfo"}

RegistryWriters ==
    {"RegisterNativeImageType", "UnregisterNativeImageType"}

\* The queries that stop the traversal at a node that matches.
StopsAtMatch(op) ==
    op \in ByNameQueries \cup {"GetNativeImageTypeForStream"}

\* LIST_FOREACH_BEGIN: the first node of the list; the node after a node;
\* NULL at the end.
FirstItem(list) ==
    IF list = <<>> THEN NULL ELSE list[1]

NextItem(list, item) ==
    LET k == CHOOSE j \in DOMAIN list : list[j] = item
    IN  IF k = Len(list) THEN NULL ELSE list[k + 1]

\* A thread calls a query of the registry, or a codec's thread registers
\* its manager (thread t has manager t), or unregisters a type name.
RegBegin(t, op, a, b) ==
    /\ thrPc[t] = "idle"
    /\ thrCallsLeft[t] > 0
    /\ op = "RegisterNativeImageType" =>
          t \in Managers /\ t \notin Linked(formatsList)
    /\ thrCall' = [thrCall EXCEPT ![t] =
                      [ op |-> op, a |-> a, b |-> b, c |-> 0 ]]
    /\ thrPc' = [thrPc EXCEPT ![t] =
                    IF op \in UnlockedQueries THEN "walk" ELSE "lock"]
    /\ thrItem' = [thrItem EXCEPT ![t] =
                      IF op \in UnlockedQueries THEN FirstItem(formatsList)
                                                ELSE NULL]
    /\ UNCHANGED <<thrHeld, thrCallsLeft>>
    /\ UNCHANGED <<imgVars, regVars, tiffVars, decVars, pvrVars, auxVars>>

\* The thread takes the registry lock: the writers for writing, the
\* queries for reading.
RegLock(t) ==
    /\ thrPc[t] = "lock"
    /\ IF thrCall[t].op \in RegistryWriters
       THEN /\ EnterCriticalRegion(t, RegistryLock, "write")
            /\ thrPc' = [thrPc EXCEPT ![t] = "mutate"]
            /\ UNCHANGED thrItem
       ELSE /\ EnterCriticalRegion(t, RegistryLock, "read")
            /\ thrPc' = [thrPc EXCEPT ![t] = "walk"]
            /\ thrItem' = [thrItem EXCEPT ![t] = FirstItem(formatsList)]
    /\ UNCHANGED <<thrCall, thrCallsLeft>>
    /\ UNCHANGED <<imgVars, regVars, tiffVars, decVars, pvrVars, auxVars>>

\* One round of a traversal: the traversal is over, or the thread has
\* looked at its node and stops there, or it goes on to the next node.  The
\* next pointer of a node that was unlinked meanwhile leads anywhere.
RegWalk(t) ==
    /\ thrPc[t] = "walk"
    /\ \/ /\ \/ thrItem[t] = NULL
             \/ thrItem[t] # NULL /\ StopsAtMatch(thrCall[t].op)
          /\ thrItem' = [thrItem EXCEPT ![t] = NULL]
          /\ IF thrHeld[t] = <<>>
             THEN ThreadReturns(t)
             ELSE /\ thrPc' = [thrPc EXCEPT ![t] = "unlock"]
                  /\ UNCHANGED <<thrCall, thrCallsLeft>>
       \/ /\ thrItem[t] # NULL
          /\ \E next \in Managers \cup {NULL} :
                /\ thrItem[t] \in Linked(formatsList) =>
                      next = NextItem(formatsList, thrItem[t])
                /\ thrItem' = [thrItem EXCEPT ![t] = next]
          /\ UNCHANGED <<thrPc, thrCall, thrCallsLeft>>
    /\ UNCHANGED thrHeld
    /\ UNCHANGED <<imgVars, regVars, tiffVars, decVars, pvrVars, auxVars>>

\* Under the write lock the manager is registered or the name unregistered.
RegMutate(t) ==
    /\ thrPc[t] = "mutate"
    /\ LET res == IF thrCall[t].op = "RegisterNativeImageType"
                  THEN RegisterNativeImageType(Registry, t, thrCall[t].a,
                                               thrCall[t].b)
                  ELSE UnregisterNativeImageType(Registry, thrCall[t].a)
       IN  /\ formatsList' = res.g.formatsList
           /\ typeSystem' = res.g.typeSystem
           /\ manData' = res.g.manData
    /\ thrPc' = [thrPc EXCEPT ![t] = "unlock"]
    /\ UNCHANGED <<thrCall, thrItem, thrHeld, thrCallsLeft>>
    /\ UNCHANGED <<regOrder, streamPos, probeAccepts, lastProbe, lastReg>>
    /\ UNCHANGED <<imgVars, tiffVars, decVars, pvrVars, auxVars>>

\* The scoped lock goes out of scope and the call returns.
RegUnlock(t) ==
    /\ thrPc[t] = "unlock"
    /\ LeaveCriticalRegion(t)
    /\ ThreadReturns(t)
    /\ UNCHANGED thrItem
    /\ UNCHANGED <<imgVars, regVars, tiffVars, decVars, pvrVars, auxVars>>

\* -- fetchFromRaster and putToRaster under threads

\* putToRaster that takes the lock of the raster before the lock of the
\* image.
LockPlan_rasterFirst(op, i, r) ==
    IF op = "fetchFromRaster"
    THEN << <<ImageLock(i), "write">>, <<RasterLock(r), "read">> >>
    ELSE << <<RasterLock(r), "write">>, <<ImageLock(i), "write">> >>

\* The scoped locks a call constructs, in the order of their construction.
LockPlan(op, i, r) ==
    IF op = "fetchFromRaster"
    THEN << <<ImageLock(i), "write">>, <<RasterLock(r), "read">> >>
    ELSE << <<ImageLock(i), "write">>, <<RasterLock(r), "write">> >>

PlanOf(t) ==
    LockPlan(thrCall[t].op, thrCall[t].a, thrCall[t].b)

\* A thread calls fetchFromRaster or putToRaster of an image with a raster.
ImgBegin(t, op, i, r) ==
    /\ thrPc[t] = "idle"
    /\ thrCallsLeft[t] > 0
    /\ thrCall' = [thrCall EXCEPT ![t] =
                      [ op |-> op, a |-> i, b |-> r, c |-> 0 ]]
    /\ thrPc' = [thrPc EXCEPT ![t] = "acquire"]
    /\ UNCHANGED <<thrItem, thrHeld, thrCallsLeft>>
    /\ UNCHANGED <<imgVars, regVars, tiffVars, decVars, pvrVars, auxVars>>

\* The next scoped lock of the call is constructed.
ImgAcquire(t) ==
    /\ thrPc[t] = "acquire"
    /\ LET want == PlanOf(t)[Len(thrHeld[t]) + 1]
       IN  EnterCriticalRegion(t, want[1], want[2])
    /\ thrPc' = [thrPc EXCEPT ![t] =
                    IF Len(thrHeld[t]) + 1 = Len(PlanOf(t)) THEN "body"
                                                            ELSE "between"]
    /\ UNCHANGED <<thrCall, thrItem, thrCallsLeft>>
    /\ UNCHANGED <<imgVars, regVars, tiffVars, decVars, pvrVars, auxVars>>

\* Between the two locks: fetchFromRaster clears the image and adds its
\* const-reference; putToRaster throws if the image's data belongs to a
\* raster.
ImgBetween(t, throws) ==
    /\ thrPc[t] = "between"
    /\ throws => thrCall[t].op = "putToRaster"
    /\ thrPc' = [thrPc EXCEPT ![t] = IF throws THEN "release" ELSE "acquire"]
    /\ UNCHANGED <<thrCall, thrItem, thrHeld, thrCallsLeft>>
    /\ UNCHANGED <<imgVars, regVars, tiffVars, decVars, pvrVars, auxVars>>

\* Under both locks the codec is called; it returns or throws, and the
\* scopes are left either way.
ImgBody(t) ==
    /\ thrPc[t] = "body"
    /\ thrPc' = [thrPc EXCEPT ![t] = "release"]
    /\ UNCHANGED <<thrCall, thrItem, thrHeld, thrCallsLeft>>
    /\ UNCHANGED <<imgVars, regVars, tiffVars, decVars, pvrVars, auxVars>>

\* The scoped locks are destructed, the last one first; then the call is
\* over.
ImgRelease(t) ==
    /\ thrPc[t] = "release"
    /\ IF thrHeld[t] = <<>>
       THEN ThreadReturns(t) /\ UNCHANGED thrHeld
       ELSE LeaveCriticalRegion(t) /\ UNCHANGED <<thrPc, thrCall, thrCallsLeft>>
    /\ UNCHANGED thrItem
    /\ UNCHANGED <<imgVars, regVars, tiffVars, decVars, pvrVars, auxVars>>

\* No thread is in a call.
InitThreads ==
    /\ thrPc = [t \in Threads |-> "idle"]
    /\ thrCall = [t \in Threads |-> NoCall]
    /\ thrItem = [t \in Threads |-> NULL]
    /\ thrHeld = [t \in Threads |-> <<>>]
    /\ thrCallsLeft = [t \in Threads |-> MaxCalls]

\* ----------------------------------------------------- the TIFF decoder

MaxWidth == 4

MaxSamples == 4

\* What DeserializeImage gets from the tags of the file: the photometric
\* type, the sample depth, the types of the extra samples (EXTRASAMPLES),
\* the orientation, whether there is a colormap, the width, the number of
\* samples per pixel, and whether TIFFScanlineSize fails.
DecodeInputs ==
    [ photometric_type : {"MINISWHITE", "MINISBLACK", "RGB", "PALETTE",
                          "SEPARATED"},
      bits_per_sample : {1, 4, 8, 16},
      extra_sample_types : {<<>>, <<0>>, <<1>>, <<2>>, <<1, 1>>},
      orientation : {"TOPLEFT", "BOTLEFT"},
      has_colormap : BOOLEAN,
      image_width : {1, 2, MaxWidth},
      sample_count : 1..MaxSamples,
      scanline_fails : BOOLEAN ]

\* What an uninitialised tiffDepth may hold.
GarbageDepths == {0, 8, 16}

\* ceil( a / b ) and ALIGN_SIZE( a, b ).
CeilDiv(a, b) ==
    (a + b - 1) \div b

AlignSize(a, b) ==
    CeilDiv(a, b) * b

\* getRasterDataRowSize( width, depth, alignment ).
getRasterDataRowSize(width, depth, alignment) ==
    AlignSize(CeilDiv(width * depth, 8), alignment)

\* TIFFScanlineSize( tif ): the bytes of a row of the file; 0 on failure.
TIFFScanlineSize(in) ==
    IF in.scanline_fails THEN 0
    ELSE CeilDiv(in.image_width * in.bits_per_sample * in.sample_count, 8)

\* doRawMipmapBuffersNeedConversion: whether texels of one layout have to
\* be converted to be texels of the other.
\* The arguments are the raster format, depth, color order and palette
\* type of the source (s...) and of the destination (d...).
doRawMipmapBuffersNeedConversion(sFmt, sDepth, sOrder, sPal, dFmt, dDepth, dOrder, dPal) ==
    \/ sFmt # dFmt
    \/ sDepth # dDepth
    \/ sOrder # dOrder
    \/ sPal # dPal

tiff_has_alpha_channel(in) ==
    /\ Len(in.extra_sample_types) = 1
    /\ in.extra_sample_types[1] \in {1, 2}

\* The layout before any mapping is found; garbage is what the
\* uninitialised tiffDepth holds.
NoMapping(garbage) ==
    [ dstRasterFormat |-> "RASTER_DEFAULT", dstDepth |-> 0,
      dstPaletteType |-> "PALETTE_NONE", dstPaletteSize |-> 0,
      tiffRasterFormat |-> "RASTER_DEFAULT", tiffDepth |-> garbage,
      parseMode |-> "none", hasKnownMapping |-> TRUE ]

\* The mapping that gives RGB with an alpha sample the layout of RGB
\* without.
MappingOfTags_rgbDropsAlpha(in, garbage) ==
    IF in.orientation = "TOPLEFT" /\ in.photometric_type = "RGB"
       /\ in.bits_per_sample = 8
       /\ (in.extra_sample_types = <<>> \/ tiff_has_alpha_channel(in))
    THEN [NoMapping(garbage) EXCEPT
             !.dstRasterFormat = "RASTER_888", !.dstDepth = 24,
             !.tiffRasterFormat = "RASTER_888", !.tiffDepth = 24,
             !.parseMode = "TPARSEMODE_FULLCOLOR"]
    ELSE NoMapping(garbage)

\* The mapping of the tags to a destination layout, as far as the nested
\* conditions find one.
MappingOfTags(in, garbage) ==
    LET none == NoMapping(garbage)
        num_extra_samples == Len(in.extra_sample_types)
        alpha == tiff_has_alpha_channel(in)
    IN  IF in.orientation # "TOPLEFT" THEN none
        ELSE IF in.photometric_type \in {"MINISWHITE", "MINISBLACK"}
        THEN IF in.bits_per_sample \in {4, 8}
                /\ (num_extra_samples = 0 \/ alpha)
             THEN IF alpha
                  THEN [none EXCEPT
                           !.dstRasterFormat = "RASTER_LUM_ALPHA",
                           !.dstDepth = 16,
                           !.tiffRasterFormat =
                               IF in.photometric_type = "MINISBLACK"
                               THEN "RASTER_LUM_ALPHA" ELSE @,
                           !.tiffDepth =
                               IF in.photometric_type = "MINISBLACK"
                               THEN in.bits_per_sample * 2 ELSE @,
                           !.parseMode = "TPARSEMODE_GRAYSCALE"]
                  ELSE [none EXCEPT
                           !.dstRasterFormat = "RASTER_LUM",
                           !.dstDepth = 8,
                           !.tiffRasterFormat =
                               IF in.photometric_type = "MINISBLACK"
                               THEN "RASTER_LUM" ELSE @,
                           !.tiffDepth =
                               IF in.photometric_type = "MINISBLACK"
                               THEN in.bits_per_sample ELSE @,
                           !.parseMode = "TPARSEMODE_GRAYSCALE"]
             ELSE none
        ELSE IF in.photometric_type = "RGB"
        THEN IF in.bits_per_sample = 8 /\ (num_extra_samples = 0 \/ alpha)
             THEN IF alpha
                  THEN [none EXCEPT
                           !.dstRasterFormat = "RASTER_8888", !.dstDepth = 32,
                           !.tiffRasterFormat = "RASTER_8888", !.tiffDepth = 8,
                           !.parseMode = "TPARSEMODE_FULLCOLOR"]
                  ELSE [none EXCEPT
                           !.dstRasterFormat = "RASTER_888", !.dstDepth = 24,
                           !.tiffRasterFormat = "RASTER_888", !.tiffDepth = 24,
                           !.parseMode = "TPARSEMODE_FULLCOLOR"]
             ELSE none
        ELSE IF in.photometric_type = "PALETTE"
        THEN IF in.bits_per_sample \in {4, 8} /\ in.has_colormap
                /\ num_extra_samples = 0
             THEN [none EXCEPT
                      !.dstRasterFormat = "RASTER_888",
                      !.dstDepth = in.bits_per_sample,
                      !.dstPaletteType = IF in.bits_per_sample = 4
                                         THEN "PALETTE_4BIT"
                                         ELSE "PALETTE_8BIT",
                      !.dstPaletteSize = IF in.bits_per_sample = 4
                                         THEN 16 ELSE 256,
                      !.parseMode = "TPARSEMODE_PALETTE",
                      !.tiffRasterFormat = "RASTER_888", !.tiffDepth = 24]
             ELSE none
        ELSE none

\* The destination layout: the mapping found, or the generic one.
DestinationLayout(in, garbage) ==
    LET m == MappingOfTags(in, garbage)
    IN  IF m.dstRasterFormat = "RASTER_DEFAULT"
        THEN [m EXCEPT !.dstRasterFormat = "RASTER_8888", !.dstDepth = 32,
                       !.parseMode = "TPARSEMODE_FULLCOLOR",
                       !.hasKnownMapping = FALSE]
        ELSE m

\* How the texels are read: "direct" into the destination buffer, through
\* the "transform" buffer of one row, or by the "rgba" reader of libtiff.
ReadTexels(in, m) ==
    LET dstRowSize == getRasterDataRowSize(in.image_width, m.dstDepth, 4)
        scanline_size == TIFFScanlineSize(in)
        canTexelsDirectlyAcquire ==
            /\ scanline_size = dstRowSize
            /\ IF m.dstPaletteType = "PALETTE_NONE"
               THEN doRawMipmapBuffersNeedConversion(
                        m.tiffRasterFormat, m.tiffDepth, "COLOR_RGBA",
                        "PALETTE_NONE",
                        m.dstRasterFormat, m.dstDepth, "COLOR_RGBA",
                        "PALETTE_NONE")
               ELSE TRUE
    IN  IF ~m.hasKnownMapping
        THEN [ outcome |-> "returned", path |-> "rgba" ]
        ELSE IF scanline_size = 0
        THEN [ outcome |-> "thrown", path |-> "none" ]
        ELSE IF canTexelsDirectlyAcquire
        THEN [ outcome |-> "returned", path |-> "direct" ]
        ELSE [ outcome |-> "returned", path |-> "transform" ]

NoDecode ==
    [ layout |-> NoMapping(0), outcome |-> "none", path |-> "none" ]

\* DeserializeImage on an opened file whose tags could be read.
DeserializeImage ==
    /\ decPc = "ready"
    /\ \E garbage \in GarbageDepths :
          LET m == DestinationLayout(decIn, garbage)
              rd == ReadTexels(decIn, m)
          IN  decOut' = [ layout |-> m, outcome |-> rd.outcome,
                          path |-> rd.path ]
    /\ decPc' = "done"
    /\ UNCHANGED decIn
    /\ UNCHANGED <<imgVars, regVars, tiffVars, thrVars, pvrVars, auxVars>>

\* No file is being decoded.
InitDecodeIdle ==
    /\ decIn = [ photometric_type |-> "RGB", bits_per_sample |-> 8,
                 extra_sample_types |-> <<>>, orientation |-> "TOPLEFT",
                 has_colormap |-> FALSE, image_width |-> 1,
                 sample_count |-> 1, scanline_fails |-> FALSE ]
    /\ decPc = "idle"
    /\ decOut = NoDecode

\* ------------------------------------------- the PowerVR native texture

MaxMipmaps == 2

\* The dimensions <<width, height>> a mipmap layer of the input may have:
\* 3 is no power of two, 8 is the side of a 4-bpp block, and of the areas
\* only 128 * 128 reaches 100 * 100.
LayerDims ==
    { <<3, 3>>, <<3, 8>>, <<8, 8>>, <<8, 128>>, <<128, 8>>, <<128, 128>> }

PvrFormats ==
    { "GL_COMPRESSED_RGB_PVRTC_4BPPV1_IMG",
      "GL_COMPRESSED_RGB_PVRTC_2BPPV1_IMG",
      "GL_COMPRESSED_RGBA_PVRTC_4BPPV1_IMG",
      "GL_COMPRESSED_RGBA_PVRTC_2BPPV1_IMG" }

\* A raw layer of pixelDataTraversal: raw and layer dimensions.
RawLayers ==
    { [ width |-> d[1], height |-> d[2],
        layerWidth |-> d[1], layerHeight |-> d[2] ] : d \in LayerDims }

RawMipmaps ==
    UNION { [1..n -> RawLayers] : n \in 1..MaxMipmaps }

\* getPVRNativeTextureSizeRules and verifyPixelData: every dimension of
\* every layer is a power of two.
IsPowerOfTwo(n) ==
    \E k \in 0..12 : n = 2^k

verifyPixelData(mipmaps) ==
    \A n \in 1..Len(mipmaps) :
        /\ IsPowerOfTwo(mipmaps[n].layerWidth)
        /\ IsPowerOfTwo(mipmaps[n].layerHeight)

getPVRCompressionTypeFromInternalFormat(internalFormat) ==
    internalFormat \in PvrFormats

getDepthByPVRFormat(internalFormat) ==
    IF internalFormat \in { "GL_COMPRESSED_RGB_PVRTC_2BPPV1_IMG",
                            "GL_COMPRESSED_RGBA_PVRTC_2BPPV1_IMG" }
    THEN 2 ELSE 4

\* Blocks of 8x8 for every depth.
getPVRCompressionBlockDimensions_square(pvrDepth) ==
    <<8, 8>>

\* getPVRCompressionBlockDimensions: <<width, height>> of a block.
getPVRCompressionBlockDimensions(pvrDepth) ==
    IF pvrDepth = 2 THEN <<16, 8>> ELSE <<8, 8>>

\* The format taken from the last layer instead of the first.
InternalFormatFor_lastLayer(hasAlpha, mipmaps) ==
    LET mainMipLayer == mipmaps[Len(mipmaps)]
        canBeCompressedHigh ==
            mainMipLayer.layerWidth * mainMipLayer.layerHeight >= 100 * 100
    IN  IF hasAlpha
        THEN IF canBeCompressedHigh
             THEN "GL_COMPRESSED_RGBA_PVRTC_2BPPV1_IMG"
             ELSE "GL_COMPRESSED_RGBA_PVRTC_4BPPV1_IMG"
        ELSE IF canBeCompressedHigh
             THEN "GL_COMPRESSED_RGB_PVRTC_2BPPV1_IMG"
             ELSE "GL_COMPRESSED_RGB_PVRTC_4BPPV1_IMG"

\* The internal format SetPixelDataToTexture compresses to.
InternalFormatFor(hasAlpha, mipmaps) ==
    LET mainMipLayer == mipmaps[1]
        canBeCompressedHigh ==
            mainMipLayer.layerWidth * mainMipLayer.layerHeight >= 100 * 100
    IN  IF hasAlpha
        THEN IF canBeCompressedHigh
             THEN "GL_COMPRESSED_RGBA_PVRTC_2BPPV1_IMG"
             ELSE "GL_COMPRESSED_RGBA_PVRTC_4BPPV1_IMG"
        ELSE IF canBeCompressedHigh
             THEN "GL_COMPRESSED_RGB_PVRTC_2BPPV1_IMG"
             ELSE "GL_COMPRESSED_RGB_PVRTC_4BPPV1_IMG"

\* CompressMipmapToPVR and the layer made of its result; compressedWith
\* records the pixel type the compressor was given.
CompressMipmapToPVR(mipLayer, internalFormat) ==
    LET pvrDepth == getDepthByPVRFormat(internalFormat)
        block == getPVRCompressionBlockDimensions(pvrDepth)
        pvrTexWidth == AlignSize(mipLayer.width, block[1])
        pvrTexHeight == AlignSize(mipLayer.height, block[2])
    IN  [ width |-> pvrTexWidth, height |-> pvrTexHeight,
          layerWidth |-> mipLayer.layerWidth,
          layerHeight |-> mipLayer.layerHeight,
          dataSize |-> (pvrTexWidth * pvrTexHeight * pvrDepth) \div 8,
          compressedWith |-> internalFormat ]

\* The feedback of a compressor that adopts buffers laid out in blocks.
DirectlyAcquired_whenBlockAligned(mipmaps, internalFormat) ==
    LET block == getPVRCompressionBlockDimensions(
                     getDepthByPVRFormat(internalFormat))
    IN  \A n \in 1..Len(mipmaps) :
            /\ mipmaps[n].width % block[1] = 0
            /\ mipmaps[n].height % block[2] = 0

\* The feedback after compressing: texels are never adopted.
DirectlyAcquired(mipmaps, internalFormat) ==
    FALSE

\* SetPixelDataToTexture writing hasAlpha before it verifies the size rules.
SetPixelData_alphaBeforeCheck(tex, hasAlpha, mipmaps, feedback) ==
    IF ~verifyPixelData(mipmaps)
    THEN [ tex |-> [tex EXCEPT !.hasAlpha = hasAlpha],
           outcome |-> "thrown", hasDirectlyAcquired |-> feedback ]
    ELSE LET internalFormat == InternalFormatFor(hasAlpha, mipmaps)
         IN  [ tex |-> [ hasAlpha |-> hasAlpha,
                         internalFormat |-> internalFormat,
                         mipmaps |-> [n \in 1..Len(mipmaps) |->
                             CompressMipmapToPVR(mipmaps[n], internalFormat)] ],
               outcome |-> "returned",
               hasDirectlyAcquired |->
                   DirectlyAcquired(mipmaps, internalFormat) ]

\* SetPixelDataToTexture on texture tex; feedback is what the caller's
\* acquireFeedback_t held before the call.
SetPixelData(tex, hasAlpha, mipmaps, feedback) ==
    IF ~verifyPixelData(mipmaps)
    THEN [ tex |-> tex, outcome |-> "thrown",
           hasDirectlyAcquired |-> feedback ]
    ELSE LET internalFormat == InternalFormatFor(hasAlpha, mipmaps)
         IN  [ tex |-> [ hasAlpha |-> hasAlpha,
                         internalFormat |-> internalFormat,
                         mipmaps |-> [n \in 1..Len(mipmaps) |->
                             CompressMipmapToPVR(mipmaps[n], internalFormat)] ],
               outcome |-> "returned",
               hasDirectlyAcquired |->
                   DirectlyAcquired(mipmaps, internalFormat) ]

NoLayer ==
    [ width |-> 0, height |-> 0, layerWidth |-> 0, layerHeight |-> 0,
      dataSize |-> 0, compressedWith |-> "none" ]

SetPixelDataToTexture ==
    \E hasAlpha \in BOOLEAN, mipmaps \in RawMipmaps, feedback \in BOOLEAN :
        LET res == SetPixelData(pvrTex, hasAlpha, mipmaps, feedback)
        IN  /\ pvrTex' = res.tex
            /\ pvrLast' = [ op |-> "SetPixelDataToTexture",
                            hasAlpha |-> hasAlpha, mipmaps |-> mipmaps,
                            compressionType |-> "RWCOMPRESS_NONE",
                            pre |-> pvrTex, outcome |-> res.outcome,
                            hasDirectlyAcquired |-> res.hasDirectlyAcquired,
                            mipLayer |-> NoLayer ]
            /\ UNCHANGED <<imgVars, regVars, tiffVars, thrVars, decVars, auxVars>>

\* pvrMipmapManager::Internalize of one layer. converts is the result of
\* ConvertMipmapLayerNative on a compressed input.
Internalize ==
    \E layer \in RawLayers, hasAlpha \in BOOLEAN, feedback \in BOOLEAN,
       input \in { <<"RWCOMPRESS_NONE", TRUE>>, <<"RWCOMPRESS_DXT1", TRUE>>,
                   <<"RWCOMPRESS_DXT1", FALSE>> } :
        LET internalFormat == pvrTex.internalFormat
            compressionType == input[1]
            converts == input[2]
            thrown ==
                \/ compressionType # "RWCOMPRESS_NONE" /\ ~converts
                \/ ~getPVRCompressionTypeFromInternalFormat(internalFormat)
        IN  /\ pvrLast' = [ op |-> "Internalize",
                            hasAlpha |-> hasAlpha, mipmaps |-> <<layer>>,
                            compressionType |-> compressionType,
                            pre |-> pvrTex,
                            outcome |-> IF thrown THEN "thrown"
                                        ELSE "returned",
                            hasDirectlyAcquired |->
                                IF thrown THEN feedback
                                ELSE DirectlyAcquired(<<layer>>,
                                                      internalFormat),
                            mipLayer |->
                                IF thrown THEN NoLayer
                                ELSE CompressMipmapToPVR(layer,
                                                         internalFormat) ]
            /\ UNCHANGED pvrTex
            /\ UNCHANGED <<imgVars, regVars, tiffVars, thrVars, decVars, auxVars>>

NoPvrCall ==
    [ op |-> "none", hasAlpha |-> FALSE, mipmaps |-> <<>>,
      compressionType |-> "RWCOMPRESS_NONE",
      pre |-> [ hasAlpha |-> FALSE,
                internalFormat |-> "GL_COMPRESSED_RGB_PVRTC_4BPPV1_IMG",
                mipmaps |-> <<>> ],
      outcome |-> "none", hasDirectlyAcquired |-> FALSE,
      mipLayer |-> NoLayer ]

\* No PowerVR texture is in use.
InitPvrIdle ==
    /\ pvrTex = NoPvrCall.pre
    /\ pvrLast = NoPvrCall

\* ------------------------------------------------ the TIFF palette

\* uint16 redScaled = ( r * 65535 / 255 ): int arithmetic, kept in 16 bits.
ScaleTo16_shift(r) ==
    (r * 256) % 65536

ScaleTo16(r) ==
    ((r * 65535) \div 255) % 65536

\* uint8 r = ( red * 255 / 65535 ): int arithmetic, kept in 8 bits.
ScaleTo8(red) ==
    ((red * 255) \div 65535) % 256

\* SerializeImage puts a palette colour into the colormap; a palette entry
\* without colour is written as 0.
SerializePalette ==
    /\ palPc = "image"
    /\ colormap' = ScaleTo16(IF palColor.hasColor THEN palColor.value ELSE 0)
    /\ palPc' = "written"
    /\ UNCHANGED <<palColor, palRead>>
    /\ UNCHANGED <<imgVars, regVars, tiffVars, thrVars, decVars, pvrVars>>
    /\ UNCHANGED auxButPal

\* DeserializeImage takes the colour out of the colormap.
DeserializePalette ==
    /\ palPc = "written"
    /\ palRead' = ScaleTo8(colormap)
    /\ palPc' = "read"
    /\ UNCHANGED <<palColor, colormap>>
    /\ UNCHANGED <<imgVars, regVars, tiffVars, thrVars, decVars, pvrVars>>
    /\ UNCHANGED auxButPal

\* No palette is in use.
InitPalIdle ==
    /\ palColor = [ value |-> 0, hasColor |-> FALSE ]
    /\ palPc = "idle"
    /\ colormap = 0
    /\ palRead = 0

\* ------------------------------------ the struct block of a PVR texture

\* The sum without the size entries.
imageDataSectionSize_payloadOnly(mipmaps) ==
    LET RECURSIVE Sum(_)
        Sum(n) == IF n = 0 THEN 0 ELSE Sum(n - 1) + mipmaps[n].dataSize
    IN  Sum(Len(mipmaps))

\* The image data section size: for every layer its dataSize and the
\* sizeof( uint32 ) of its size entry.
imageDataSectionSize(mipmaps) ==
    LET RECURSIVE Sum(_)
        Sum(n) == IF n = 0 THEN 0
                  ELSE Sum(n - 1) + mipmaps[n].dataSize + SizeofUint32
    IN  Sum(Len(mipmaps))

\* What SerializeTexture writes into the chunk when no write fails: the
\* meta header, the data sizes, the picture data.
StructBlock(tex) ==
    LET mipmapCount == Len(tex.mipmaps)
        metaHeader ==
            [ kind |-> "metaHeader",
              mipmapCount |-> mipmapCount % 256,
              hasAlpha |-> tex.hasAlpha,
              width |-> tex.mipmaps[1].layerWidth,
              height |-> tex.mipmaps[1].layerHeight,
              internalFormat |-> tex.internalFormat,
              imageDataStreamSize |-> imageDataSectionSize(tex.mipmaps) ]
    IN  <<metaHeader>>
        \o [n \in 1..mipmapCount |->
               [ kind |-> "mipDataSize", value |-> tex.mipmaps[n].dataSize ]]
        \o [n \in 1..mipmapCount |->
               [ kind |-> "texels", layer |-> n,
                 size |-> tex.mipmaps[n].dataSize ]]

\* SerializeTexture on the texture; writes \in 0..N is how many writes to
\* the chunk succeed before one throws, or N when all do.
SerializeTexture ==
    /\ pvrWritten = "ready"
    /\ IF Len(pvrTex.mipmaps) = 0
       THEN /\ pvrBlock' = <<>>
            /\ pvrWritten' = "thrown"
       ELSE \E writes \in 0..Len(StructBlock(pvrTex)) :
                /\ pvrBlock' = SubSeq(StructBlock(pvrTex), 1, writes)
                /\ pvrWritten' = IF writes = Len(StructBlock(pvrTex))
                                 THEN "returned" ELSE "thrown"
    /\ UNCHANGED <<imgVars, regVars, tiffVars, thrVars, decVars, pvrVars>>
    /\ UNCHANGED auxButSer

\* No texture is being written.
InitSerIdle ==
    /\ pvrBlock = <<>>
    /\ pvrWritten = "idle"

\* ------------------------- the type interface, statement by statement

\* Destruct with the codec payload destroyed before the image data is
\* cleared.
DestructStatements_payloadFirst(i) ==
    <<"DestroyImage", "clearImageData", "~NativeImagePrivate">>

\* The statements of nativeImageTypeInterface::Destruct, in their order.
DestructStatements(i) ==
    <<"clearImageData", "DestroyImage", "~NativeImagePrivate">>

\* The statements of nativeImageTypeInterface::Construct that run when the
\* constructor of the codec payload throws, or does not.
ConstructStatements(throws) ==
    IF throws
    THEN <<"NativeImagePrivate", "ConstructImage throws",
           "~NativeImagePrivate">>
    ELSE <<"NativeImagePrivate", "ConstructImage">>

\* The statements of nativeImageTypeInterface::CopyConstruct.
CopyConstructStatements(throws) ==
    IF throws
    THEN <<"NativeImagePrivate( right )", "CopyConstructImage throws",
           "~NativeImagePrivate">>
    ELSE <<"NativeImagePrivate( right )", "CopyConstructImage">>

\* The heap after a statement of a call on image i with source src.
AfterStatement(h, statement, i, src) ==
    CASE statement = "NativeImagePrivate" -> NativeImagePrivate(h, i)
      [] statement = "NativeImagePrivate( right )" ->
             NativeImagePrivateCopy(h, i, src)
      [] statement = "ConstructImage" ->
             [h EXCEPT !.imgAlive[i] = TRUE, !.imgPixels[i] = NoData,
                       !.imgPalette[i] = NoData]
      [] statement = "CopyConstructImage" ->
             [CopyConstructImage(h, i, src) EXCEPT !.imgAlive[i] = TRUE]
      [] statement = "clearImageData" -> clearImageData(h, i)
      [] statement = "DestroyImage" ->
             [h EXCEPT !.imgPixels[i] = NoData, !.imgPalette[i] = NoData]
      [] statement = "~NativeImagePrivate" -> ReleaseSlot(h, i)
      [] OTHER -> h

\* No copy was made by the call before.
NoCopy ==
    [ owner |-> NULL, refCount |-> 0, constRefCount |-> 0,
      externalRasterRef |-> FALSE ]

NoLifeCall ==
    [ op |-> "none", statements |-> <<>>, img |-> NULL, src |-> NULL,
      result |-> "none", asserts |-> TRUE, ownerAtPayload |-> NULL,
      copied |-> NoCopy ]

\* A call of the type interface begins; nothing of it has run yet.
LifeBegin(op, statements, i, src, copied) ==
    /\ lifePc = 0
    /\ lifePc' = 1
    /\ lifeCall' = [ op |-> op, statements |-> statements, img |-> i,
                     src |-> src, result |-> "running", asserts |-> TRUE,
                     ownerAtPayload |-> NULL, copied |-> copied ]
    /\ lifeLog' = <<>>
    /\ UNCHANGED imgVars
    /\ UNCHANGED <<regVars, tiffVars, thrVars, decVars, pvrVars>>
    /\ UNCHANGED auxButLife

\* The type system constructs an image in a free slot.
BeginConstruct(i) ==
    /\ ~imgAlive[i]
    /\ \E throws \in BOOLEAN :
          LifeBegin("Construct", ConstructStatements(throws), i, NULL, NoCopy)

\* The type system copy-constructs an image from a live one; the counters
\* of the raster the source borrows from are kept with the call.
BeginCopyConstruct(i, src) ==
    /\ ~imgAlive[i]
    /\ imgAlive[src]
    /\ pixelOwner[src] # NULL =>
          /\ LeakedConstRefs(pixelOwner[src]) < MaxLeaks
          /\ LeakedRefs(pixelOwner[src]) < MaxLeaks
    /\ \E throws \in BOOLEAN :
          LifeBegin("CopyConstruct", CopyConstructStatements(throws), i, src,
                    IF pixelOwner[src] = NULL THEN NoCopy
                    ELSE [ owner |-> pixelOwner[src],
                           refCount |-> refCount[pixelOwner[src]],
                           constRefCount |-> constRefCount[pixelOwner[src]],
                           externalRasterRef |-> externalRasterRef[src] ])

\* The type system destroys a live image; if the call before made this
\* image as a copy, what that call kept goes on to this one.
BeginDestruct(i) ==
    /\ imgAlive[i]
    /\ LifeBegin("Destruct", DestructStatements(i), i, NULL,
                 IF lifeCall.op = "CopyConstruct" /\ lifeCall.result = "ok"
                    /\ lifeCall.img = i
                 THEN lifeCall.copied ELSE NoCopy)

\* The next statement of the call runs.  The destructor of the handle
\* evaluates its assertions; the payload destructor finds the image with
\* the pixelOwner that is kept in ownerAtPayload.
LifeStatement ==
    /\ lifePc # 0
    /\ LET statement == lifeCall.statements[lifePc]
           i == lifeCall.img
           last == (lifePc = Len(lifeCall.statements))
       IN  /\ Commit(AfterStatement(Heap, statement, i, lifeCall.src))
           /\ lifeLog' = Append(lifeLog, statement)
           /\ lifePc' = IF last THEN 0 ELSE lifePc + 1
           /\ lifeCall' =
                 [lifeCall EXCEPT
                     !.asserts = IF statement = "~NativeImagePrivate"
                                 THEN DestructorAsserts(Heap, i) ELSE @,
                     !.ownerAtPayload = IF statement = "DestroyImage"
                                        THEN pixelOwner[i] ELSE @,
                     !.result = IF ~last THEN @
                                ELSE IF lifeCall.op = "Destruct"
                                        \/ statement # "~NativeImagePrivate"
                                THEN "ok" ELSE "thrown"]
    /\ UNCHANGED <<callerConstRefs, streamImages, traced, lastOp>>
    /\ UNCHANGED <<regVars, tiffVars, thrVars, decVars, pvrVars>>
    /\ UNCHANGED auxButLife

\* Between two calls of the type interface: an operation of the image
\* layer runs; the call before is no longer the last one.
LifeOther(out) ==
    /\ lifePc = 0
    /\ Commit(out.h)
    /\ lifeCall' = NoLifeCall
    /\ lifeLog' = <<>>
    /\ UNCHANGED lifePc
    /\ UNCHANGED <<streamImages, traced, lastOp>>
    /\ UNCHANGED <<regVars, tiffVars, thrVars, decVars, pvrVars>>
    /\ UNCHANGED auxButLife

LifeFetchFromRaster(i, r) ==
    /\ imgAlive[i]
    /\ \E fb \in FeedbackSet : LifeOther(fetchFromRaster(Heap, i, r, fb))
    /\ UNCHANGED callerConstRefs

LifeFetchFromRasterNoLock(i, r) ==
    /\ imgAlive[i]
    /\ callerConstRefs[r] > Cardinality(ExternalBorrowers(r) \ {i})
    /\ \E fb \in FeedbackSet :
          LifeOther(NativeImageFetchFromRasterNoLock(Heap, i, r, fb))
    /\ UNCHANGED callerConstRefs

LifeCallerAddConstRef(r) ==
    /\ callerConstRefs[r] < MaxCallerRefs
    /\ callerConstRefs' = [callerConstRefs EXCEPT ![r] = @ + 1]
    /\ LifeOther(Outcome(addConstRef(Heap, r), "ok", FALSE, <<>>, FALSE, TRUE))

\* No call of the type interface is under way.
InitLifeIdle ==
    /\ lifePc = 0
    /\ lifeCall = NoLifeCall
    /\ lifeLog = <<>>

\* ------------------------------------------------ stream compression

MaxCompressors == 2

\* What the file system and the compressor do in a CreateDecompressedStream
\* call: the managers whose IsStreamCompressed accepts the stream, where
\* each probe leaves the cursor, whether GetRepository, GenerateRandomFile
\* and CreateProvider give an object, and how Decompress ends.
StreamInputs ==
    [ accepts : SUBSET Managers,
      moves : [Managers -> Positions],
      repo : BOOLEAN,
      decFile : BOOLEAN,
      compressor : BOOLEAN,
      Decompress : {"true", "false", "throws"} ]

\* The loop over env->compressors from item k on: cur is the position of
\* the cursor of the stream, probed the probes made so far, each with the
\* position it started at.
RECURSIVE CompressorLoop(_, _, _, _, _, _)
CompressorLoop(list, in, k, cur, needsStreamReset, probed) ==
    IF k > Len(list)
    THEN [ theManager |-> NULL, pos |-> cur,
           needsStreamReset |-> needsStreamReset, probed |-> probed ]
    ELSE
        LET manager == list[k]
            at == IF needsStreamReset THEN 0 ELSE cur
            isCorrectFormat == manager \in in.accepts
        IN  IF isCorrectFormat
            THEN [ theManager |-> manager, pos |-> in.moves[manager],
                   needsStreamReset |-> TRUE,
                   probed |-> Append(probed, <<manager, at>>) ]
            ELSE CompressorLoop(list, in, k + 1, in.moves[manager], TRUE,
                                Append(probed, <<manager, at>>))

\* What a call leaves: the file it returns ("compressed", the original, or
\* "tmpFile", the wrapper of the decompressed file) or that it threw, the
\* position of the original stream and of the temporary file, how often
\* the original stream and the file from GenerateRandomFile were deleted,
\* and the probes.
StreamResult(resultFile, pos, deletedCompressed, hasDecFile, deletedDecFile,
             tmpPos, loop) ==
    [ resultFile |-> resultFile, pos |-> pos,
      deletedCompressed |-> deletedCompressed, hasDecFile |-> hasDecFile,
      deletedDecFile |-> deletedDecFile, tmpPos |-> tmpPos,
      theManager |-> loop.theManager, probed |-> loop.probed ]

\* CreateDecompressedStream( mainWnd, compressed ) with the cursor of
\* compressed at pos; env is whether the main window has the plugin struct.
\* A position of the temporary file that no call set is MaxPos.
DecompressedStream(env, list, pos, in) ==
    LET none == [ theManager |-> NULL, pos |-> pos,
                  needsStreamReset |-> FALSE, probed |-> <<>> ]
        loop == CompressorLoop(list, in, 1, pos, FALSE, <<>>)
        reset == IF loop.needsStreamReset THEN 0 ELSE loop.pos
    IN  IF ~env
        THEN StreamResult("compressed", pos, 0, FALSE, 0, MaxPos, none)
        ELSE IF loop.theManager = NULL \/ ~in.repo \/ ~in.decFile
        THEN StreamResult("compressed", reset, 0, FALSE, 0, MaxPos, loop)
        ELSE IF ~in.compressor
        THEN StreamResult("compressed", reset, 0, TRUE, 1, MaxPos, loop)
        ELSE IF in.Decompress = "true"
        THEN StreamResult("tmpFile", reset, 1, TRUE, 0, 0, loop)
        ELSE IF in.Decompress = "false"
        THEN StreamResult("compressed", 0, 0, TRUE, 1, MaxPos, loop)
        ELSE StreamResult("thrown", in.moves[loop.theManager], 0, TRUE, 1,
                          MaxPos, loop)

NoStreamCall ==
    [ called |-> FALSE, env |-> TRUE, posBefore |-> 0, list |-> <<>>,
      accepts |-> {},
      out |-> StreamResult("compressed", 0, 0, FALSE, 0, MaxPos,
                           [ theManager |-> NULL, probed |-> <<>> ]) ]

\* The action leaves everything but the stream compression alone.
StreamFrame ==
    /\ UNCHANGED <<imgVars, regVars, tiffVars, thrVars, decVars, pvrVars>>
    /\ UNCHANGED auxButStr

\* A client hands a stream to CreateDecompressedStream.
CreateDecompressedStream ==
    \E env \in BOOLEAN, pos \in Positions, in \in StreamInputs :
        /\ strLast' = [ called |-> TRUE, env |-> env, posBefore |-> pos,
                        list |-> compressors, accepts |-> in.accepts,
                        out |-> DecompressedStream(env, compressors, pos, in) ]
        /\ UNCHANGED compressors
        /\ StreamFrame

\* RegisterStreamCompressionManager.
RegisterStreamCompressionManager(manager) ==
    /\ Len(compressors) < MaxCompressors
    /\ compressors' = Append(compressors, manager)
    /\ strLast' = NoStreamCall
    /\ StreamFrame

\* UnregisterStreamCompressionManager: std::find and erase take the first
\* entry that is the manager.
UnregisterStreamCompressionManager(manager) ==
    /\ \E k \in DOMAIN compressors :
          /\ compressors[k] = manager
          /\ \A j \in 1..(k - 1) : compressors[j] # manager
          /\ compressors' = SubSeq(compressors, 1, k - 1)
                                \o SubSeq(compressors, k + 1, Len(compressors))
    /\ strLast' = NoStreamCall
    /\ StreamFrame

\* No compression manager is registered.
InitStrIdle ==
    /\ compressors = <<>>
    /\ strLast = NoStreamCall

\* ------------------------------------------------ temporary repository

MaxRepCalls == 3

\* The environment after Initialize: no repository, the lock free, nothing
\* generated, nothing returned.  generated holds what each call of
\* GenerateTempRepository gave (NULL or a new repository), returned the
\* <<thread, repository>> of each GetRepository call that came back,
\* overlapped whether two calls were ever under way at once.
NoRepLog ==
    [ alive |-> TRUE, calls |-> 0, generated |-> <<>>, returned |-> <<>>,
      overlapped |-> FALSE ]

\* The action leaves everything but the repository alone.
RepFrame ==
    /\ UNCHANGED <<imgVars, regVars, tiffVars, thrVars, decVars, pvrVars>>
    /\ UNCHANGED auxButRep

\* A thread calls GetRepository.
RepCall(t) ==
    /\ repLog.alive
    /\ repPc[t] = "idle"
    /\ repLog.calls < MaxRepCalls
    /\ repPc' = [repPc EXCEPT ![t] = "check"]
    /\ repLog' = [repLog EXCEPT
                     !.calls = @ + 1,
                     !.overlapped = @ \/ \E u \in Threads : repPc[u] # "idle"]
    /\ UNCHANGED <<tmpRoot, lockRootConsistency>>
    /\ RepFrame

\* if ( !this->tmpRoot ) outside the lock: the read of the volatile pointer
\* races with the assignment under the lock, so it gives the pointer or
\* still the NULL from before the assignment.
RepCheck(t) ==
    /\ repPc[t] = "check"
    /\ \E seen \in {tmpRoot, NULL} :
          repPc' = [repPc EXCEPT ![t] = IF seen = NULL THEN "lock" ELSE "return"]
    /\ UNCHANGED <<tmpRoot, lockRootConsistency, repLog>>
    /\ RepFrame

\* rw::scoped_rwlock_writer consistency( this->lockRootConsistency ).
RepLock(t) ==
    /\ repPc[t] = "lock"
    /\ lockRootConsistency = NULL
    /\ lockRootConsistency' = t
    /\ repPc' = [repPc EXCEPT ![t] = "checkAgain"]
    /\ UNCHANGED <<tmpRoot, repLog>>
    /\ RepFrame

\* The check under the lock, without a repository.
MustGenerate_always(root) ==
    TRUE

\* if ( !this->tmpRoot ) under the lock.
MustGenerate(root) ==
    root = NULL

RepCheckAgain(t) ==
    /\ repPc[t] = "checkAgain"
    /\ repPc' = [repPc EXCEPT
                    ![t] = IF MustGenerate(tmpRoot) THEN "generate" ELSE "unlock"]
    /\ UNCHANGED <<tmpRoot, lockRootConsistency, repLog>>
    /\ RepFrame

\* this->tmpRoot = mainWnd->fileSystem->GenerateTempRepository(), which
\* gives a new repository or NULL.
RepGenerate(t) ==
    /\ repPc[t] = "generate"
    /\ \E made \in {NULL, Len(repLog.generated) + 1} :
          /\ tmpRoot' = made
          /\ repLog' = [repLog EXCEPT !.generated = Append(@, made)]
    /\ repPc' = [repPc EXCEPT ![t] = "unlock"]
    /\ UNCHANGED lockRootConsistency
    /\ RepFrame

\* The scoped lock goes out of scope.
RepUnlock(t) ==
    /\ repPc[t] = "unlock"
    /\ lockRootConsistency' = NULL
    /\ repPc' = [repPc EXCEPT ![t] = "return"]
    /\ UNCHANGED <<tmpRoot, repLog>>
    /\ RepFrame

\* return this->tmpRoot.
RepReturn(t) ==
    /\ repPc[t] = "return"
    /\ repLog' = [repLog EXCEPT !.returned = Append(@, <<t, tmpRoot>>)]
    /\ repPc' = [repPc EXCEPT ![t] = "idle"]
    /\ UNCHANGED <<tmpRoot, lockRootConsistency>>
    /\ RepFrame

\* streamCompressionEnv::Shutdown, when the main window goes and no call
\* is under way: the lock is closed and the repository deleted.
RepShutdown ==
    /\ repLog.alive
    /\ \A t \in Threads : repPc[t] = "idle"
    /\ repLog' = [repLog EXCEPT !.alive = FALSE]
    /\ UNCHANGED <<tmpRoot, lockRootConsistency, repPc>>
    /\ RepFrame

\* streamCompressionEnv::Initialize for the next main window.
RepInitialize ==
    /\ ~repLog.alive
    /\ tmpRoot' = NULL
    /\ lockRootConsistency' = NULL
    /\ repLog' = NoRepLog
    /\ UNCHANGED repPc
    /\ RepFrame

InitRepIdle ==
    /\ tmpRoot = NULL
    /\ lockRootConsistency = NULL
    /\ repPc = [t \in Threads |-> "idle"]
    /\ repLog = NoRepLog

InitAuxIdle ==
    /\ InitPalIdle
    /\ InitSerIdle
    /\ InitLifeIdle
    /\ InitStrIdle
    /\ InitRepIdle

\* ---------------------------------------------------- specifications

\* After construction of the engine: no image exists, and every raster is
\* owned by its texture dictionary alone; the rasters with a native texture
\* hold the given texels and no palette.
InitHeapOf(texels) ==
    /\ imgAlive = [i \in Images |-> FALSE]
    /\ hasPaletteDataRef = [i \in Images |-> FALSE]
    /\ hasPixelDataRef = [i \in Images |-> FALSE]
    /\ pixelOwner = [i \in Images |-> NULL]
    /\ externalRasterRef = [i \in Images |-> FALSE]
    /\ imgPixels = [i \in Images |-> NoData]
    /\ imgPalette = [i \in Images |-> NoData]
    /\ refCount = [r \in Rasters |-> 1]
    /\ constRefCount = [r \in Rasters |-> 0]
    /\ texPixels = [r \in Rasters |->
                        IF platformData[r] THEN texels[r] ELSE NoData]
    /\ texPalette = [r \in Rasters |-> NoData]
    /\ callerConstRefs = [r \in Rasters |-> 0]
    /\ lastOp = [ op |-> "init", img |-> NULL, raster |-> NULL, result |-> "ok",
                  needsRef |-> FALSE, locks |-> <<>>, unset |-> FALSE,
                  asserts |-> TRUE, direct |-> FALSE, directPal |-> FALSE,
                  pre |-> Snapshot(Heap, NULL, NULL), after |-> "other" ]

\* The same, the native textures holding different texels.
InitHeap ==
    InitHeapOf([r \in Rasters |-> ((r - 1) % MaxData) + 1])

\* All images and rasters, every raster with a native texture of the same
\* texels; the streams hold an image without palette.  The run is not
\* traced.
Init ==
    /\ platformData = [r \in Rasters |-> TRUE]
    /\ streamImages = {<<1, NoData>>}
    /\ traced = FALSE
    /\ InitHeapOf([r \in Rasters |-> 1])
    /\ InitRegistry
    /\ InitTiffIdle
    /\ InitThreads
    /\ InitDecodeIdle
    /\ InitPvrIdle
    /\ InitAuxIdle

Next ==
    \/ \E i \in Images : CreateNativeImage(i)
    \/ \E i \in Images, src \in Images : CloneNativeImage(i, src)
    \/ \E i \in Images : DeleteNativeImage(i)
    \/ \E i \in Images : CallClearImageData(i)
    \/ \E i \in Images, r \in Rasters : CallFetchFromRaster(i, r)
    \/ \E i \in Images, r \in Rasters : CallFetchFromRasterNoLock(i, r)
    \/ \E i \in Images, r \in Rasters : CallPutToRaster(i, r)
    \/ \E i \in Images, r \in Rasters : CallPutToRasterNoLock(i, r)
    \/ \E i \in Images : CallReadFromStream(i)
    \/ \E i \in Images : CallWriteToStream(i)
    \/ \E r \in Rasters : CallerAddConstRef(r)
    \/ \E r \in Rasters : CallerRemConstRef(r)

Spec == Init /\ [][Next]_vars

\* One image handle and all rasters, with or without a native texture; the
\* streams hold images with and without palette.  The run is traced.
InitOne ==
    /\ platformData \in [Rasters -> BOOLEAN]
    /\ streamImages = {<<MaxData, NoData>>, <<1, MaxData>>}
    /\ traced = TRUE
    /\ InitHeap
    /\ InitRegistry
    /\ InitTiffIdle
    /\ InitThreads
    /\ InitDecodeIdle
    /\ InitPvrIdle
    /\ InitAuxIdle

NextOne ==
    \/ CreateNativeImage(1)
    \/ DeleteNativeImage(1)
    \/ CallClearImageData(1)
    \/ \E r \in Rasters : CallFetchFromRaster(1, r)
    \/ \E r \in Rasters : CallFetchFromRasterNoLock(1, r)
    \/ \E r \in Rasters : CallPutToRaster(1, r)
    \/ \E r \in Rasters : CallPutToRasterNoLock(1, r)
    \/ CallReadFromStream(1)
    \/ CallWriteToStream(1)
    \/ \E r \in Rasters : CallerAddConstRef(r)
    \/ \E r \in Rasters : CallerRemConstRef(r)

SpecOne == InitOne /\ [][NextOne]_vars

\* The registry and the stream alone: no image is created.
InitReg ==
    /\ platformData = [r \in Rasters |-> TRUE]
    /\ streamImages = {}
    /\ traced = FALSE
    /\ InitHeap
    /\ InitRegistry
    /\ InitTiffIdle
    /\ InitThreads
    /\ InitDecodeIdle
    /\ InitPvrIdle
    /\ InitAuxIdle

NextReg ==
    \/ \E m \in Managers, n \in TypeNames, f \in FriendlyNames :
          CallRegisterNativeImageType(m, n, f)
    \/ \E n \in TypeNames : CallUnregisterNativeImageType(n)
    \/ CallGetNativeImageTypeForStream
    \/ \E accepts \in SUBSET Managers, pos \in Positions :
          OpenStream(accepts, pos)

SpecReg == InitReg /\ [][NextReg]_vars

\* No node is linked into the list twice.
Intact(list) ==
    \A j, k \in DOMAIN list : list[j] = list[k] => j = k

\* The registry with codecs that register a manager again while it is
\* registered.  Once a node is linked twice the list is broken, and the
\* run ends there.
NextRegAgain ==
    /\ Intact(formatsList)
    /\ \/ \E m \in Managers, n \in TypeNames, f \in FriendlyNames :
             CallRegisterNativeImageType(m, n, f)
       \/ \E m \in Managers, n \in TypeNames, f \in FriendlyNames :
             CallRegisterNativeImageTypeAgain(m, n, f)
       \/ \E n \in TypeNames : CallUnregisterNativeImageType(n)

SpecRegAgain == InitReg /\ [][NextRegAgain]_vars

\* The TIFF probe alone: it is called on a stream whose cursor stands at the
\* start of the file, or at the start of the stream where a prefix is.
InitTiff ==
    /\ platformData = [r \in Rasters |-> TRUE]
    /\ streamImages = {}
    /\ traced = FALSE
    /\ InitHeap
    /\ InitRegistry
    /\ \E start \in {0, PrefixLen} : \E stream \in TiffStreams(start) :
          /\ tiffStream = stream
          /\ tiffPos = start
    /\ tiffPc = "idle"
    /\ tiffFrame = NoFrame
    /\ tiffResult = FALSE
    /\ InitThreads
    /\ InitDecodeIdle
    /\ InitPvrIdle
    /\ InitAuxIdle

NextTiff ==
    \/ TiffEnter
    \/ TiffReadHeader
    \/ TiffReadCount
    \/ TiffReadEntry
    \/ TiffReadNext

SpecTiff == InitTiff /\ [][NextTiff]_vars

\* The TIFF probe as a call that runs on: a thread inside IsStreamCompatible
\* takes its next step.
SpecTiffLive == InitTiff /\ [][NextTiff]_vars /\ WF_vars(NextTiff)

\* The registry used by several threads.
InitRegLock ==
    /\ platformData = [r \in Rasters |-> TRUE]
    /\ streamImages = {}
    /\ traced = FALSE
    /\ InitHeap
    /\ InitRegistry
    /\ InitTiffIdle
    /\ InitThreads
    /\ InitDecodeIdle
    /\ InitPvrIdle
    /\ InitAuxIdle

RegStep(t) ==
    \/ \E op \in LockingQueries \cup UnlockedQueries : RegBegin(t, op, 0, 0)
    \/ \E op \in ByNameQueries, f \in FriendlyNames : RegBegin(t, op, f, 0)
    \/ \E n \in TypeNames, f \in FriendlyNames :
          RegBegin(t, "RegisterNativeImageType", n, f)
    \/ \E n \in TypeNames : RegBegin(t, "UnregisterNativeImageType", n, 0)
    \/ RegLock(t)
    \/ RegWalk(t)
    \/ RegMutate(t)
    \/ RegUnlock(t)

NextRegLock ==
    \E t \in Threads : RegStep(t)

SpecRegLock == InitRegLock /\ [][NextRegLock]_vars

\* Images and rasters used by several threads.
ImgStep(t) ==
    \/ \E op \in {"fetchFromRaster", "putToRaster"},
          i \in Images, r \in Rasters : ImgBegin(t, op, i, r)
    \/ ImgAcquire(t)
    \/ \E throws \in BOOLEAN : ImgBetween(t, throws)
    \/ ImgBody(t)
    \/ ImgRelease(t)

NextImgLock ==
    \E t \in Threads : ImgStep(t)

\* A thread that can take a step is scheduled at some time.
SpecImgLock ==
    InitRegLock /\ [][NextImgLock]_vars /\ \A t \in Threads : WF_vars(ImgStep(t))

\* The TIFF decoder alone, on every combination of tags.
InitDecode ==
    /\ platformData = [r \in Rasters |-> TRUE]
    /\ streamImages = {}
    /\ traced = FALSE
    /\ InitHeap
    /\ InitRegistry
    /\ InitTiffIdle
    /\ InitThreads
    /\ decIn \in DecodeInputs
    /\ decPc = "ready"
    /\ decOut = NoDecode
    /\ InitPvrIdle
    /\ InitAuxIdle

NextDecode ==
    DeserializeImage

SpecDecode == InitDecode /\ [][NextDecode]_vars

\* One PowerVR texture, as constructed or as read from a stream with any
\* internal format value.
InitPvr ==
    /\ platformData = [r \in Rasters |-> TRUE]
    /\ streamImages = {}
    /\ traced = FALSE
    /\ InitHeap
    /\ InitRegistry
    /\ InitTiffIdle
    /\ InitThreads
    /\ InitDecodeIdle
    /\ pvrTex \in [ hasAlpha : BOOLEAN,
                    internalFormat : PvrFormats \cup {"unknown"},
                    mipmaps : {<<>>} ]
    /\ pvrLast = NoPvrCall
    /\ InitAuxIdle

NextPvr ==
    \/ SetPixelDataToTexture
    \/ Internalize

SpecPvr == InitPvr /\ [][NextPvr]_vars

\* One palette colour channel, written to a TIFF file and read again.
InitPal ==
    /\ platformData = [r \in Rasters |-> TRUE]
    /\ streamImages = {}
    /\ traced = FALSE
    /\ InitHeap
    /\ InitRegistry
    /\ InitTiffIdle
    /\ InitThreads
    /\ InitDecodeIdle
    /\ InitPvrIdle
    /\ palColor \in [ value : 0..255, hasColor : BOOLEAN ]
    /\ palPc = "image"
    /\ colormap = 0
    /\ palRead = 0
    /\ InitSerIdle
    /\ InitLifeIdle
    /\ InitStrIdle
    /\ InitRepIdle

NextPal ==
    \/ SerializePalette
    \/ DeserializePalette

SpecPal == InitPal /\ [][NextPal]_vars

\* The PowerVR textures that hold up to MaxMipmaps compressed layers.
PvrTextures ==
    UNION { [ hasAlpha : BOOLEAN, internalFormat : {f},
              mipmaps : {<<>>} \cup
                  { [n \in 1..Len(raw) |-> CompressMipmapToPVR(raw[n], f)] :
                        raw \in RawMipmaps } ] : f \in PvrFormats }

InitPvrWrite ==
    /\ platformData = [r \in Rasters |-> TRUE]
    /\ streamImages = {}
    /\ traced = FALSE
    /\ InitHeap
    /\ InitRegistry
    /\ InitTiffIdle
    /\ InitThreads
    /\ InitDecodeIdle
    /\ pvrTex \in PvrTextures
    /\ pvrLast = NoPvrCall
    /\ InitPalIdle
    /\ pvrBlock = <<>>
    /\ pvrWritten = "ready"
    /\ InitLifeIdle
    /\ InitStrIdle
    /\ InitRepIdle

NextPvrWrite ==
    SerializeTexture

SpecPvrWrite == InitPvrWrite /\ [][NextPvrWrite]_vars

\* The type interface at work on all images, with the fetches that make an
\* image borrow from a raster.  The run is not traced.
NextLife ==
    \/ \E i \in Images : BeginConstruct(i)
    \/ \E i \in Images, src \in Images : BeginCopyConstruct(i, src)
    \/ \E i \in Images : BeginDestruct(i)
    \/ LifeStatement
    \/ \E i \in Images, r \in Rasters : LifeFetchFromRaster(i, r)
    \/ \E i \in Images, r \in Rasters : LifeFetchFromRasterNoLock(i, r)
    \/ \E r \in Rasters : LifeCallerAddConstRef(r)

SpecLife == Init /\ [][NextLife]_vars

\* The stream compression environment alone.
NextStr ==
    \/ CreateDecompressedStream
    \/ \E m \in Managers : RegisterStreamCompressionManager(m)
    \/ \E m \in Managers : UnregisterStreamCompressionManager(m)

SpecStr == InitReg /\ [][NextStr]_vars

\* The temporary repository alone.
NextRep ==
    \/ \E t \in Threads : RepCall(t)
    \/ \E t \in Threads : RepCheck(t)
    \/ \E t \in Threads : RepLock(t)
    \/ \E t \in Threads : RepCheckAgain(t)
    \/ \E t \in Threads : RepGenerate(t)
    \/ \E t \in Threads : RepUnlock(t)
    \/ \E t \in Threads : RepReturn(t)
    \/ RepShutdown
    \/ RepInitialize

SpecRep == InitReg /\ [][NextRep]_vars

TypeOK ==
    /\ imgAlive \in [Images -> BOOLEAN]
    /\ pixelOwner \in [Images -> {NULL} \cup Rasters]
    /\ imgPixels \in [Images -> Payloads]
    /\ imgPalette \in [Images -> Payloads]
    /\ texPixels \in [Rasters -> Payloads]
    /\ texPalette \in [Rasters -> Payloads]
    /\ \A r \in Rasters : refCount[r] >= 1 /\ constRefCount[r] >= 0
    /\ tiffPc \in {"idle", "header", "count", "entry", "next", "done"}
    /\ tiffPos \in Nat
    /\ tiffResult \in BOOLEAN
    /\ tiffResult => tiffPc = "done"

\* ------------------------------------------------------------ claims

\* The four ownership fields of image i are in their empty state.
OwnershipEmpty(i) ==
    /\ hasPaletteDataRef[i] = FALSE
    /\ hasPixelDataRef[i] = FALSE
    /\ pixelOwner[i] = NULL
    /\ externalRasterRef[i] = FALSE

\* The four ownership fields of the image of the last operation are what
\* they were before it.
OwnershipUntouched ==
    /\ hasPaletteDataRef[lastOp.img] = lastOp.pre.hasPaletteDataRef
    /\ hasPixelDataRef[lastOp.img] = lastOp.pre.hasPixelDataRef
    /\ pixelOwner[lastOp.img] = lastOp.pre.pixelOwner
    /\ externalRasterRef[lastOp.img] = lastOp.pre.externalRasterRef

\* The native texture of the raster of the last operation holds the pixel
\* and palette data it held before it.
RasterDataUntouched ==
    /\ texPixels[lastOp.raster] = lastOp.pre.texPixels
    /\ texPalette[lastOp.raster] = lastOp.pre.texPalette

\* C1: between operations, an image that borrows palette or pixel data
\* (hasPaletteDataRef or hasPixelDataRef) has a non-null pixelOwner.
C1_RefFlagsImplyOwner ==
    \A i \in Images :
        imgAlive[i] /\ (hasPaletteDataRef[i] \/ hasPixelDataRef[i])
            => pixelOwner[i] # NULL

\* Two images borrow from the same raster, one of them its palette only.
C1_Witness ==
    \E i, j \in Images :
        /\ i # j /\ imgAlive[i] /\ imgAlive[j]
        /\ hasPaletteDataRef[i] /\ ~hasPixelDataRef[i]
        /\ pixelOwner[i] # NULL /\ pixelOwner[j] = pixelOwner[i]

\* C2, as the specification states it: between operations, the
\* const-reference count of every raster is the number of images that own
\* it with externalRasterRef = false plus the const-references the callers
\* took themselves.
C2_ConstRefAccounting ==
    \A r \in Rasters :
        constRefCount[r] = Cardinality(InternalBorrowers(r)) + callerConstRefs[r]

\* C3: after clearImageData the four ownership fields are empty, the
\* const-reference count of the former pixelOwner is one lower if
\* externalRasterRef was false and the same if it was true, and its owning
\* reference count is one lower.
C3_ClearImageDataPost ==
    lastOp.op = "clear" =>
        /\ OwnershipEmpty(lastOp.img)
        /\ lastOp.pre.pixelOwner # NULL =>
              /\ constRefCount[lastOp.pre.pixelOwner] =
                    lastOp.pre.constRefCount
                        - (IF lastOp.pre.externalRasterRef THEN 0 ELSE 1)
              /\ refCount[lastOp.pre.pixelOwner] = lastOp.pre.refCount - 1

\* clearImageData has released a raster that the image borrowed from on a
\* const-reference of the caller.
C3_Witness ==
    /\ lastOp.op = "clear"
    /\ lastOp.pre.pixelOwner # NULL
    /\ lastOp.pre.externalRasterRef
    /\ lastOp.pre.constRefCount > 0

\* C4: a clearImageData directly after a clearImageData on the same image
\* changes none of the four ownership fields and no const-reference count
\* or owning reference count of any raster.
C4_ClearImageDataIdempotent ==
    [][ (lastOp.op = "clear" /\ CallClearImageData(lastOp.img))
            => UNCHANGED <<hasPaletteDataRef, hasPixelDataRef, pixelOwner,
                           externalRasterRef, refCount, constRefCount>> ]_vars

\* A second clearImageData has run directly after one that released a
\* raster.
C4_Witness ==
    /\ lastOp.op = "clear"
    /\ lastOp.after = "clear_released"
    /\ lastOp.pre.pixelOwner = NULL

\* C5: a successful fetchFromRaster(R) on an image that did not borrow from
\* R: with hasDirectlyAcquired or hasDirectlyAcquiredPalette the image has
\* pixelOwner = R, externalRasterRef = false and R's const-reference count
\* is one higher than before; otherwise pixelOwner = NULL and R's
\* const-reference count is what it was.
C5_FetchOutcome ==
    (lastOp.op = "fetch" /\ lastOp.result = "ok"
        /\ lastOp.pre.pixelOwner # lastOp.raster) =>
        IF lastOp.direct \/ lastOp.directPal
        THEN /\ pixelOwner[lastOp.img] = lastOp.raster
             /\ externalRasterRef[lastOp.img] = FALSE
             /\ constRefCount[lastOp.raster] = lastOp.pre.constRefCount + 1
        ELSE /\ pixelOwner[lastOp.img] = NULL
             /\ constRefCount[lastOp.raster] = lastOp.pre.constRefCount

\* A fetch that acquired only the palette directly, on an image that
\* borrowed from another raster on a const-reference of the caller.
C5_Witness ==
    /\ lastOp.op = "fetch" /\ lastOp.result = "ok"
    /\ lastOp.directPal /\ ~lastOp.direct
    /\ lastOp.pre.pixelOwner \notin {NULL, lastOp.raster}
    /\ lastOp.pre.externalRasterRef
    /\ pixelOwner[lastOp.img] = lastOp.raster

\* C6: from an empty image and a raster R with const-reference count 0,
\* fetchFromRaster(R) with direct acquisition followed by DeleteNativeImage
\* leaves R's const-reference count at 0 and R's owning reference count at
\* its value before the fetch.
C6_FetchThenDelete ==
    [][ ( /\ lastOp.op = "fetch" /\ lastOp.result = "ok" /\ lastOp.needsRef
          /\ lastOp.pre.pixelOwner = NULL
          /\ lastOp.pre.imgPixels = NoData /\ lastOp.pre.imgPalette = NoData
          /\ lastOp.pre.constRefCount = 0
          /\ DeleteNativeImage(lastOp.img) )
            => /\ constRefCount'[lastOp.raster] = 0
               /\ refCount'[lastOp.raster] = lastOp.pre.refCount ]_vars

\* The image has been deleted directly after a fetch that borrowed, when it
\* held the only const-reference on the raster.
C6_Witness ==
    /\ lastOp.op = "delete"
    /\ lastOp.after = "fetch_borrowed"
    /\ lastOp.pre.pixelOwner # NULL
    /\ ~lastOp.pre.externalRasterRef
    /\ lastOp.pre.constRefCount = 1
    /\ constRefCount[lastOp.raster] = 0

\* A putToRaster directly follows a successful fetchFromRaster on the same
\* image, and the target raster has a native texture that the codec writes
\* without throwing.
FetchThenPut ==
    /\ lastOp.op = "fetch" /\ lastOp.result = "ok"
    /\ lastOp'.op = "put" /\ lastOp'.img = lastOp.img
    /\ lastOp'.result \notin {"codec_throw", "no_native"}

\* The put succeeded and its raster holds the pixel and palette data that
\* the raster of the fetch held (a data value stands for bytes and layout).
PutCarriesFetchedData ==
    /\ lastOp'.result = "ok"
    /\ texPixels'[lastOp'.raster] = lastOp.pre.texPixels
    /\ texPalette'[lastOp'.raster] = lastOp.pre.texPalette

PutOnOwningImage ==
    /\ lastOp.op \in {"put", "putNoLock"}
    /\ lastOp.pre.pixelOwner # NULL

\* C8: putToRaster and NativeImagePutToRasterNoLock on an image with a
\* non-null pixelOwner fail with already-owned; the ownership fields of
\* the image and the pixel data of the target raster do not change, the
\* raster lock is not taken and UnsetPixelDataFromTexture is not called.
C8_AlreadyOwned ==
    PutOnOwningImage =>
        /\ lastOp.result = "already_owned"
        /\ OwnershipUntouched
        /\ RasterDataUntouched
        /\ lastOp.unset = FALSE
        /\ \A k \in DOMAIN lastOp.locks : lastOp.locks[k] # "raster:write"

\* A put was tried on an image that borrows from the very raster it was
\* to be put to, which holds pixel data.
C8_Witness ==
    /\ PutOnOwningImage
    /\ lastOp.op = "put"
    /\ lastOp.pre.pixelOwner = lastOp.raster
    /\ lastOp.pre.texPixels \in DataVals

\* The last operation was a fetch, or a put, that failed.
FailedFetch ==
    lastOp.op \in {"fetch", "fetchNoLock"} /\ lastOp.result # "ok"

FailedPut ==
    lastOp.op \in {"put", "putNoLock"} /\ lastOp.result # "ok"

\* The image of the last operation is empty: no ownership, no data.
ImageLeftEmpty ==
    /\ OwnershipEmpty(lastOp.img)
    /\ imgPixels[lastOp.img] = NoData
    /\ imgPalette[lastOp.img] = NoData

\* C9, as the specification states it: a failed fetchFromRaster,
\* NativeImageFetchFromRasterNoLock, putToRaster or
\* NativeImagePutToRasterNoLock leaves the image empty.
C9_FailureLeavesEmpty ==
    FailedFetch \/ FailedPut => ImageLeftEmpty

\* C9, amended: a failed fetchFromRaster or
\* NativeImageFetchFromRasterNoLock leaves the image empty; a failed
\* putToRaster or NativeImagePutToRasterNoLock leaves the four ownership
\* fields of the image as they were, and its data too when the put failed
\* before the codec was called.
C9_FailedFetchLeavesEmpty ==
    /\ FailedFetch => ImageLeftEmpty
    /\ FailedPut =>
          /\ OwnershipUntouched
          /\ lastOp.result \in {"already_owned", "no_native"} =>
                /\ imgPixels[lastOp.img] = lastOp.pre.imgPixels
                /\ imgPalette[lastOp.img] = lastOp.pre.imgPalette

\* A fetch failed in the codec on an image that borrowed from a raster
\* before.
C9_Witness ==
    /\ FailedFetch
    /\ lastOp.result = "codec_throw"
    /\ lastOp.pre.pixelOwner # NULL
    /\ lastOp.pre.hasPixelDataRef

\* C10, as the specification states it: when putToRaster fails because
\* WriteToNativeTexture throws, or because the raster has no native data,
\* the native texture of the raster holds the pixel data it held before.
C10_PutStrongGuarantee ==
    (lastOp.op \in {"put", "putNoLock"}
        /\ lastOp.result \in {"codec_throw", "no_native"})
            => RasterDataUntouched

\* Before the last operation its image was EMPTY: it owned no raster and
\* held no data.
PreEmpty ==
    /\ lastOp.pre.pixelOwner = NULL
    /\ lastOp.pre.imgPixels = NoData
    /\ lastOp.pre.imgPalette = NoData

\* Before the last operation its image was OWNED: it held pixel data of
\* its own.
PreOwned ==
    /\ lastOp.pre.pixelOwner = NULL
    /\ lastOp.pre.imgPixels \in DataVals

\* Before the last operation its image was BORROWED: it owned a raster and
\* held a const-reference on it.
PreBorrowed ==
    /\ lastOp.pre.pixelOwner # NULL
    /\ lastOp.pre.externalRasterRef = FALSE

\* The image of the last operation is in state EMPTY: it borrows nothing,
\* owns no raster and holds no data.
StateEmpty ==
    /\ hasPaletteDataRef[lastOp.img] = FALSE
    /\ hasPixelDataRef[lastOp.img] = FALSE
    /\ pixelOwner[lastOp.img] = NULL
    /\ imgPixels[lastOp.img] = NoData
    /\ imgPalette[lastOp.img] = NoData

\* The image of the last operation is in state OWNED: it holds pixel data
\* of its own and borrows nothing.
StateOwned ==
    /\ hasPaletteDataRef[lastOp.img] = FALSE
    /\ hasPixelDataRef[lastOp.img] = FALSE
    /\ pixelOwner[lastOp.img] = NULL
    /\ imgPixels[lastOp.img] \in DataVals

\* C11: the ownership of the bytes of an image follows the state machine:
\* a successful readFromStream takes EMPTY to OWNED; a successful
\* putToRaster takes OWNED to EMPTY; a fetchFromRaster with direct
\* acquisition takes EMPTY to BORROWED (pixelOwner set, one const-reference
\* more on the raster); clearImageData and destruction take BORROWED to
\* EMPTY and give the const-reference back.
C11_OwnershipStateMachine ==
    /\ (lastOp.op = "read" /\ lastOp.result = "ok" /\ PreEmpty) =>
          StateOwned
    /\ (lastOp.op = "put" /\ lastOp.result = "ok" /\ PreOwned) =>
          StateEmpty
    /\ (lastOp.op = "fetch" /\ lastOp.result = "ok" /\ PreEmpty
            /\ (lastOp.direct \/ lastOp.directPal)) =>
          /\ pixelOwner[lastOp.img] = lastOp.raster
          /\ externalRasterRef[lastOp.img] = FALSE
          /\ constRefCount[lastOp.raster] = lastOp.pre.constRefCount + 1
    /\ (lastOp.op \in {"clear", "delete"} /\ PreBorrowed) =>
          /\ StateEmpty
          /\ constRefCount[lastOp.pre.pixelOwner] = lastOp.pre.constRefCount - 1

\* A put has handed pixels and palette, read from a stream, to a raster
\* and left the image empty.
C11_Witness ==
    /\ lastOp.op = "put" /\ lastOp.result = "ok"
    /\ PreOwned
    /\ lastOp.pre.imgPalette \in DataVals
    /\ texPalette[lastOp.raster] = lastOp.pre.imgPalette
    /\ imgPixels[lastOp.img] = NoData

\* C12: after readFromStream, returned or thrown, the image borrows
\* nothing: both ref flags are false, pixelOwner is NULL, and the
\* const-reference the image itself held on a raster is released.
C12_ReadFromStreamReleases ==
    lastOp.op = "read" =>
        /\ OwnershipEmpty(lastOp.img)
        /\ PreBorrowed =>
              constRefCount[lastOp.pre.pixelOwner] = lastOp.pre.constRefCount - 1
        /\ lastOp.pre.pixelOwner # NULL =>
              refCount[lastOp.pre.pixelOwner] = lastOp.pre.refCount - 1

\* A readFromStream has thrown on an image that borrowed from a raster on
\* a const-reference of its own.
C12_Witness ==
    /\ lastOp.op = "read" /\ lastOp.result = "codec_throw"
    /\ PreBorrowed
    /\ lastOp.pre.hasPaletteDataRef
    /\ constRefCount[lastOp.pre.pixelOwner] = 0

\* A successful NativeImageFetchFromRasterNoLock reports needsRef exactly
\* when the image has the raster as pixelOwner afterwards.
NoLockNeedsRef ==
    (lastOp.op = "fetchNoLock" /\ lastOp.result = "ok") =>
        (lastOp.needsRef <=> pixelOwner[lastOp.img] = lastOp.raster)

\* NativeImageFetchFromRasterNoLock takes no lock of the raster.
NoLockTakesNoRasterLock ==
    lastOp.op = "fetchNoLock" =>
        \A k \in DOMAIN lastOp.locks :
            lastOp.locks[k] \notin {"raster:read", "raster:write"}

\* Before the last operation its image held a const-reference of its own
\* on the raster of the operation.
PreOwnRefOnRaster ==
    PreBorrowed /\ lastOp.pre.pixelOwner = lastOp.raster

\* A clearImageData directly after a NativeImageFetchFromRasterNoLock that
\* borrowed leaves every const-reference count as it is.
LaterClearKeepsCallerRef ==
    (lastOp.op = "fetchNoLock" /\ lastOp.result = "ok" /\ lastOp.needsRef
        /\ CallClearImageData(lastOp.img))
            => UNCHANGED constRefCount

\* C13, as the specification states it: NativeImageFetchFromRasterNoLock
\* reports needsRef iff the image borrowed, never changes the
\* const-reference count of the raster, never takes the lock of the
\* raster, and a later clearImageData does not decrement the count.
C13_NoLockNeverTouchesConstRef ==
    /\ [](/\ NoLockNeedsRef
          /\ NoLockTakesNoRasterLock
          /\ lastOp.op = "fetchNoLock" =>
                constRefCount[lastOp.raster] = lastOp.pre.constRefCount)
    /\ [][LaterClearKeepsCallerRef]_vars

\* C13, amended: as above, but the const-reference count of the raster is
\* unchanged only when the image held no const-reference of its own on
\* that raster before the call; when it did, the clearImageData at the
\* start of the call gives that one back.
C13_NoLockTakesNoConstRef ==
    /\ [](/\ NoLockNeedsRef
          /\ NoLockTakesNoRasterLock
          /\ lastOp.op = "fetchNoLock" =>
                constRefCount[lastOp.raster] =
                    lastOp.pre.constRefCount
                        - (IF PreOwnRefOnRaster THEN 1 ELSE 0))
    /\ [][LaterClearKeepsCallerRef]_vars

\* A clearImageData has run directly after a borrowing
\* NativeImageFetchFromRasterNoLock and left the caller's const-reference
\* on the raster.
C13_Witness ==
    /\ lastOp.op = "clear"
    /\ lastOp.after = "fetch_borrowed"
    /\ lastOp.pre.externalRasterRef
    /\ lastOp.pre.constRefCount > 0
    /\ constRefCount[lastOp.pre.pixelOwner] = lastOp.pre.constRefCount

\* C14, as the specification states it: while the const-reference count of
\* a raster is above 0 and an image borrows from it, no operation changes
\* the pixel or palette data of that raster.
C14_NoMutationWhileBorrowed ==
    [][ \A r \in Rasters :
            (constRefCount[r] > 0 /\ Borrowers(r) # {}) =>
                /\ texPixels'[r] = texPixels[r]
                /\ texPalette'[r] = texPalette[r] ]_vars

\* A lock of a raster, of an image.
IsRasterLock(l) == l \in {"raster:read", "raster:write"}

IsImageLock(l) == l \in {"image:read", "image:write"}

\* C15, as the specification states it: in fetchFromRaster, putToRaster and
\* the NoLock variants (entered under the lock of the raster), no thread
\* requests the lock of an image while it holds the lock of a raster.
C15_ImageBeforeRaster ==
    lastOp.op \in {"fetch", "put", "fetchNoLock", "putNoLock"} =>
        \A j, k \in DOMAIN LockTrace :
            j < k => ~(IsRasterLock(LockTrace[j]) /\ IsImageLock(LockTrace[k]))

\* The managers that the last GetNativeImageTypeForStream probed, in the
\* order of the probes.
ProbedManagers ==
    [j \in DOMAIN lastProbe.probed |-> lastProbe.probed[j][1]]

\* The places in the order of registration of the managers whose probe
\* accepts the stream.
AcceptingPlaces ==
    {k \in DOMAIN regOrder : regOrder[k] \in probeAccepts}

\* The first of them.
FirstAccepting ==
    CHOOSE k \in AcceptingPlaces : \A j \in AcceptingPlaces : k <= j

C17_ProbeRestoresPosition ==
    lastProbe.called =>
        /\ streamPos = lastProbe.posBefore
        /\ \A j \in DOMAIN lastProbe.probed :
              lastProbe.probed[j][2] = lastProbe.posBefore

\* No codec accepted, two probes ran and both left the cursor somewhere
\* else than where the call found it.
C17_Witness ==
    /\ lastProbe.called
    /\ lastProbe.result = NULL
    /\ Len(lastProbe.probed) = 2
    /\ lastProbe.posBefore = 1
    /\ \A m \in Managers : lastProbe.moves[m] # lastProbe.posBefore
    /\ streamPos = 1

\* How often manager m is in the format list.
TimesLinked(m) ==
    Cardinality({k \in DOMAIN formatsList : formatsList[k] = m})

\* C19: for a manager that is not registered and a free type name,
\* register, unregister, register again succeeds at every step, and the
\* format list then holds the manager exactly once.
C19_RegisterUnregisterRegister ==
    /\ lastReg.chain \in {1, 2, 3} => lastReg.success
    /\ lastReg.chain = 3 => TimesLinked(lastReg.man) = 1

\* The third step has been taken while another codec was registered too.
C19_Witness ==
    /\ lastReg.chain = 3
    /\ lastReg.success
    /\ Len(formatsList) = 2
    /\ formatsList[2] = lastReg.man

\* C20: RegisterNativeImageType with a type name that exists already
\* returns false, the name conflict does not escape, and the format list
\* and the manData of the manager are what they were.
C20_NameConflictReturnsFalse ==
    (lastReg.op = "register" /\ lastReg.conflict) =>
        /\ lastReg.success = FALSE
        /\ lastReg.escaped = FALSE
        /\ formatsList = lastReg.preList
        /\ manData[lastReg.man] = lastReg.preData

\* A manager that was registered before, and has metadata from then, has
\* tried the name of a registered codec.
C20_Witness ==
    /\ lastReg.op = "register" /\ lastReg.conflict
    /\ lastReg.preData.imgType # NULL
    /\ lastReg.preData.imgType # lastReg.name
    /\ Len(lastReg.preList) = 1
    /\ ~lastReg.success

\* C18: the TIFF probe IsStreamCompatible leaves the stream position
\* unchanged: on every return path, accepting or rejecting, the position
\* after the call equals the tell() value saved at entry.
C18_TiffProbeRestoresPosition ==
    tiffPc = "done" => tiffPos = tiffFrame.tiff_start

\* What a TIFF file is, read off the bytes of the stream: the file starts
\* where the cursor stood at the call.
FileStart ==
    IF tiffPc = "idle" THEN tiffPos ELSE tiffFrame.tiff_start

\* The stream has n bytes from offset off of the file on.
FileHas(off, n) ==
    FileStart + off + n <= Len(tiffStream)

FileBytes(off, n) ==
    SubSeq(tiffStream, FileStart + off + 1, FileStart + off + n)

FileIsBigEndian ==
    FileBytes(0, 2) = <<77, 77>>

\* The number of n bytes at offset off, in the byte order of the file.
RECURSIVE BigEndianValue(_)
BigEndianValue(bytes) ==
    IF bytes = <<>> THEN 0
    ELSE 256 * BigEndianValue(SubSeq(bytes, 1, Len(bytes) - 1)) + bytes[Len(bytes)]

RECURSIVE LittleEndianValue(_)
LittleEndianValue(bytes) ==
    IF bytes = <<>> THEN 0
    ELSE bytes[1] + 256 * LittleEndianValue(Tail(bytes))

FileNumber(off, n) ==
    IF FileIsBigEndian THEN BigEndianValue(FileBytes(off, n))
                       ELSE LittleEndianValue(FileBytes(off, n))

\* Byte-order mark 0x4949 or 0x4D4D and the value 42 in that byte order.
HeaderGood ==
    /\ FileHas(0, 8)
    /\ FileBytes(0, 2) \in {<<73, 73>>, <<77, 77>>}
    /\ FileNumber(2, 2) = 42

\* The directory at offset off: its entry count, whether all of it (count,
\* entries, next pointer) is in the stream, and its next pointer.
IfdCount(off) ==
    FileNumber(off, 2)

IfdWhole(off) ==
    /\ FileHas(off, 2)
    /\ FileHas(off + 2, 12 * IfdCount(off) + 4)

IfdNext(off) ==
    FileNumber(off + 2 + 12 * IfdCount(off), 4)

\* Item sizes of BYTE, ASCII, SHORT, LONG, RATIONAL.
ItemSizeOfType ==
    (1 :> 1) @@ (2 :> 1) @@ (3 :> 2) @@ (4 :> 4) @@ (5 :> 8)

\* Entry k of the directory at off is of no known type, or its data is at
\* most 4 bytes, or its data ends within limit.
EntryFits(off, k, limit) ==
    LET at == off + 2 + 12 * (k - 1)
        type == FileNumber(at + 2, 2)
        count == FileNumber(at + 4, 4)
        data_offset == FileNumber(at + 8, 4)
    IN  type \in DOMAIN ItemSizeOfType =>
            \/ count * ItemSizeOfType[type] <= 4
            \/ data_offset + count * ItemSizeOfType[type] <= limit

\* The chain of directories from off on ends in a zero next pointer after
\* at most fuel more directories, every directory has at least minCount
\* entries and every entry fits.
RECURSIVE ChainEnds(_, _, _, _)
ChainEnds(off, fuel, limit, minCount) ==
    /\ IfdWhole(off)
    /\ IfdCount(off) >= minCount
    /\ \A k \in 1..IfdCount(off) : EntryFits(off, k, limit)
    /\ \/ IfdNext(off) = 0
       \/ /\ fuel > 0
          /\ ChainEnds(IfdNext(off), fuel - 1, limit, minCount)

\* A chain that does not repeat a directory has fewer directories than the
\* stream has bytes.
ChainTerminated ==
    /\ HeaderGood
    /\ ChainEnds(FileNumber(4, 4), Len(tiffStream), Len(tiffStream), 0)

FirstIfdEmpty ==
    /\ HeaderGood
    /\ FileHas(FileNumber(4, 4), 2)
    /\ IfdCount(FileNumber(4, 4)) = 0

\* C22: the TIFF probe returns false for a stream with a valid header whose
\* IFD has an entry count of zero, and returns false for a stream whose IFD
\* chain is not terminated by a zero next-IFD pointer.
C22_EmptyOrUnterminatedRejected ==
    (tiffPc = "header" /\ HeaderGood /\ (FirstIfdEmpty \/ ~ChainTerminated))
        ~> (tiffPc = "done" /\ ~tiffResult)

\* The part of C22 that does not ask for a return: whenever the probe
\* returns on such a stream, it returns false.
C22_RejectedWhenReturning ==
    (tiffPc = "done" /\ HeaderGood /\ (FirstIfdEmpty \/ ~ChainTerminated))
        => ~tiffResult

\* C23: the TIFF probe returns true exactly for the streams that have a
\* byte-order mark, 42 in that byte order, and a chain of one or more IFDs
\* ending in a zero next pointer in which every entry of a known type has
\* count*itemSize <= 4 or data_offset + count*itemSize <= stream size.
C23_AcceptsExactly ==
    tiffPc = "done" =>
        (tiffResult <=>
            /\ HeaderGood
            /\ ChainEnds(FileNumber(4, 4), Len(tiffStream), Len(tiffStream), 0))

\* C23 as the probe has it: every IFD of the chain has at least one entry,
\* and the data of an entry has to end within the bytes that the stream has
\* from the position of the call on.
C23_AcceptsExactlyNonEmptyFromStart ==
    tiffPc = "done" =>
        (tiffResult <=>
            /\ HeaderGood
            /\ ChainEnds(FileNumber(4, 4), Len(tiffStream),
                         Len(tiffStream) - FileStart, 1))

\* A big-endian file of two directories has been accepted.
C23_Witness ==
    /\ tiffPc = "done"
    /\ tiffResult
    /\ FileIsBigEndian
    /\ IfdNext(FileNumber(4, 4)) # 0

\* C29: the TIFF probe terminates with a boolean on every finite input
\* stream, also when the next-IFD pointers form a cycle.
C29_ProbeTerminates ==
    <>(tiffPc = "done")

\* A thread is in a traversal of the format list; a thread is between the
\* taking and the release of the registry lock for writing.
Traversing(t) ==
    thrPc[t] = "walk"

Mutating(t) ==
    thrPc[t] \in {"mutate", "unlock"} /\ thrCall[t].op \in RegistryWriters

\* C21: every traversal of the format list by a public query holds the
\* registry lock, so none interleaves with the insertion or removal done by
\* RegisterNativeImageType or UnregisterNativeImageType.
C21_TraversalsHoldRegistryLock ==
    \A t \in Threads :
        Traversing(t) =>
            /\ t \in Holders(RegistryLock, "read")
            /\ \A u \in Threads : ~Mutating(u)

\* What the interleaving leads to: a thread stands on a node that another
\* thread has unlinked.
C21_NoTraversalOnUnlinkedNode ==
    \A t \in Threads :
        (Traversing(t) /\ thrItem[t] # NULL) =>
            thrItem[t] \in Linked(formatsList)

\* Every thread in a call gets out of it.
EveryCallReturns ==
    \A t \in Threads : (thrPc[t] # "idle") ~> (thrPc[t] = "idle")

\* A thread that holds a raster lock took the lock of its image before, and
\* takes read for fetchFromRaster and write for putToRaster.
ImageThenRaster ==
    \A t \in Threads :
        \A k \in DOMAIN thrHeld[t] :
            thrHeld[t][k][1][1] = "raster" =>
                /\ k = 2
                /\ thrHeld[t][1] = <<ImageLock(thrCall[t].a), "write">>
                /\ thrHeld[t][k] =
                      <<RasterLock(thrCall[t].b),
                        IF thrCall[t].op = "fetchFromRaster" THEN "read"
                                                             ELSE "write">>

\* C28: concurrent calls of fetchFromRaster and putToRaster, on any images
\* and rasters, never deadlock: each call takes the image write lock and
\* then the raster lock, and every call returns.
C28_NoDeadlock ==
    /\ []ImageThenRaster
    /\ EveryCallReturns

\* One thread is under the lock of a raster, the other one holds the lock
\* of another image and waits for that raster.
C28_Witness ==
    \E t, u \in Threads :
        /\ thrPc[t] = "body"
        /\ thrPc[u] = "acquire"
        /\ Len(thrHeld[u]) = 1
        /\ thrCall[u].b = thrCall[t].b
        /\ thrCall[u].a # thrCall[t].a
        /\ thrCall[u].op = "putToRaster"

\* The table of the destination layouts: raster format, palette type, and
\* whether the generic RGBA reader is used.
OneAlphaSample ==
    Len(decIn.extra_sample_types) = 1 /\ decIn.extra_sample_types[1] \in {1, 2}

NoExtraSample ==
    decIn.extra_sample_types = <<>>

LayoutOfTable ==
    IF decIn.orientation # "TOPLEFT"
    THEN <<"RASTER_8888", "PALETTE_NONE", "generic">>
    ELSE IF decIn.photometric_type \in {"MINISWHITE", "MINISBLACK"}
            /\ decIn.bits_per_sample \in {4, 8} /\ NoExtraSample
    THEN <<"RASTER_LUM", "PALETTE_NONE", "known">>
    ELSE IF decIn.photometric_type \in {"MINISWHITE", "MINISBLACK"}
            /\ decIn.bits_per_sample \in {4, 8} /\ OneAlphaSample
    THEN <<"RASTER_LUM_ALPHA", "PALETTE_NONE", "known">>
    ELSE IF decIn.photometric_type = "RGB" /\ decIn.bits_per_sample = 8
            /\ NoExtraSample
    THEN <<"RASTER_888", "PALETTE_NONE", "known">>
    ELSE IF decIn.photometric_type = "RGB" /\ decIn.bits_per_sample = 8
            /\ OneAlphaSample
    THEN <<"RASTER_8888", "PALETTE_NONE", "known">>
    ELSE IF decIn.photometric_type = "PALETTE" /\ decIn.bits_per_sample = 4
            /\ decIn.has_colormap /\ NoExtraSample
    THEN <<"RASTER_888", "PALETTE_4BIT", "known">>
    ELSE IF decIn.photometric_type = "PALETTE" /\ decIn.bits_per_sample = 8
            /\ decIn.has_colormap /\ NoExtraSample
    THEN <<"RASTER_888", "PALETTE_8BIT", "known">>
    ELSE <<"RASTER_8888", "PALETTE_NONE", "generic">>

\* C24: TIFF decode maps (photometric, bits per sample, extra samples,
\* orientation) to the destination layout of the table; every other
\* combination, and every orientation other than TOPLEFT, uses the generic
\* RGBA8888 reader.
C24_DecodeMapping ==
    decPc = "done" =>
        /\ decOut.layout.dstRasterFormat = LayoutOfTable[1]
        /\ decOut.layout.dstPaletteType = LayoutOfTable[2]
        /\ decOut.layout.hasKnownMapping = (LayoutOfTable[3] = "known")
        /\ (decOut.path = "rgba") = (LayoutOfTable[3] = "generic")
        /\ decOut.layout.dstRasterFormat = "RASTER_LUM" =>
              decOut.layout.dstDepth = 8

\* A grayscale file with one alpha sample has been decoded.
C24_Witness ==
    /\ decPc = "done"
    /\ decIn.photometric_type = "MINISWHITE"
    /\ decIn.bits_per_sample = 4
    /\ decIn.extra_sample_types = <<2>>
    /\ decOut.layout.dstRasterFormat = "RASTER_LUM_ALPHA"

\* The TIFF layout is not the destination layout.
LayoutNeedsConversion ==
    \/ decOut.layout.tiffRasterFormat # decOut.layout.dstRasterFormat
    \/ decOut.layout.tiffDepth # decOut.layout.dstDepth

RowSizesEqual ==
    TIFFScanlineSize(decIn) =
        getRasterDataRowSize(decIn.image_width, decOut.layout.dstDepth, 4)

\* C30: in TIFF decode with a known mapping, scanlines are read directly
\* into the destination buffer if and only if the TIFF scanline size equals
\* the destination row size and the TIFF layout needs no conversion (or the
\* image is palettised); whenever a conversion is needed, the transform
\* buffer is used.
C30_DirectIffNoConversion ==
    (decPc = "done" /\ decOut.layout.hasKnownMapping
        /\ decOut.outcome = "returned") =>
        /\ (decOut.path = "direct") =
              (/\ RowSizesEqual
               /\ \/ decOut.layout.dstPaletteType # "PALETTE_NONE"
                  \/ ~LayoutNeedsConversion)
        /\ (decOut.layout.dstPaletteType = "PALETTE_NONE"
            /\ LayoutNeedsConversion) => decOut.path = "transform"

\* The last call was a SetPixelDataToTexture that returned.
PixelDataSet ==
    pvrLast.op = "SetPixelDataToTexture" /\ pvrLast.outcome = "returned"

\* The format that goes with an alpha flag and an area of layer 0.
NamedFormat(alpha, area) ==
    IF area >= 100 * 100
    THEN IF alpha THEN "GL_COMPRESSED_RGBA_PVRTC_2BPPV1_IMG"
         ELSE "GL_COMPRESSED_RGB_PVRTC_2BPPV1_IMG"
    ELSE IF alpha THEN "GL_COMPRESSED_RGBA_PVRTC_4BPPV1_IMG"
         ELSE "GL_COMPRESSED_RGB_PVRTC_4BPPV1_IMG"

\* C25: PVRTC SetPixelDataToTexture chooses the internal format from layer 0
\* only: a 2-bpp variant if layerWidth*layerHeight >= 100*100 and a 4-bpp
\* variant otherwise, the RGBA variant if and only if hasAlpha; every mipmap
\* layer stored by the call is compressed with that one format.
C25_FormatFromLayerZero ==
    PixelDataSet =>
        /\ pvrTex.internalFormat =
               NamedFormat(pvrLast.hasAlpha,
                           pvrLast.mipmaps[1].layerWidth
                               * pvrLast.mipmaps[1].layerHeight)
        /\ Len(pvrTex.mipmaps) = Len(pvrLast.mipmaps)
        /\ \A n \in 1..Len(pvrTex.mipmaps) :
               /\ pvrTex.mipmaps[n].compressedWith = pvrTex.internalFormat
               /\ pvrTex.mipmaps[n].layerWidth = pvrLast.mipmaps[n].layerWidth
               /\ pvrTex.mipmaps[n].layerHeight = pvrLast.mipmaps[n].layerHeight

\* Two layers were stored, the first large and the second small.
C25_Witness ==
    /\ PixelDataSet
    /\ Len(pvrTex.mipmaps) = 2
    /\ pvrLast.mipmaps[1].layerWidth = 128
    /\ pvrLast.mipmaps[1].layerHeight = 128
    /\ pvrLast.mipmaps[2].layerWidth = 8
    /\ pvrLast.mipmaps[2].layerHeight = 8
    /\ pvrLast.hasAlpha
    /\ pvrTex.mipmaps[2].compressedWith = "GL_COMPRESSED_RGBA_PVRTC_2BPPV1_IMG"

\* C26: PVRTC SetPixelDataToTexture and the mipmap manager's Internalize
\* always report hasDirectlyAcquired = false, for every input layout
\* including one that already matches the block dimensions.
C26_NeverDirectlyAcquired ==
    (pvrLast.op \in {"SetPixelDataToTexture", "Internalize"}
        /\ pvrLast.outcome = "returned") =>
        pvrLast.hasDirectlyAcquired = FALSE

\* An 8x8 layer went into a texture of a 4-bpp format, whose blocks are 8x8.
C26_Witness ==
    /\ pvrLast.op = "Internalize"
    /\ pvrLast.outcome = "returned"
    /\ pvrLast.mipmaps[1].width = 8
    /\ pvrLast.mipmaps[1].height = 8
    /\ pvrLast.compressionType = "RWCOMPRESS_NONE"
    /\ pvrLast.mipLayer.width = 8
    /\ pvrLast.mipLayer.height = 8
    /\ pvrLast.pre.mipmaps # <<>>

\* A dimension of the pixel data given to the last call is no power of two.
SizeRulesViolated ==
    \E n \in 1..Len(pvrLast.mipmaps) :
        \/ pvrLast.mipmaps[n].layerWidth = 3
        \/ pvrLast.mipmaps[n].layerHeight = 3

\* C27: PVRTC SetPixelDataToTexture given pixel data whose mipmap dimensions
\* violate the PVR size rules fails with an error, and in that case the
\* texture is unchanged: hasAlpha, internalFormat and the mipmap list keep
\* their values from before the call.
C27_SizeRuleFailureKeepsTexture ==
    (pvrLast.op = "SetPixelDataToTexture" /\ SizeRulesViolated) =>
        /\ pvrLast.outcome = "thrown"
        /\ pvrTex.hasAlpha = pvrLast.pre.hasAlpha
        /\ pvrTex.internalFormat = pvrLast.pre.internalFormat
        /\ pvrTex.mipmaps = pvrLast.pre.mipmaps

\* The call failed on a texture that held layers and the other alpha flag.
C27_Witness ==
    /\ pvrLast.op = "SetPixelDataToTexture"
    /\ SizeRulesViolated
    /\ pvrLast.outcome = "thrown"
    /\ pvrLast.pre.mipmaps # <<>>
    /\ pvrLast.hasAlpha # pvrLast.pre.hasAlpha

\* C31: the TIFF palette channel scaling round-trips exactly: every 8-bit
\* channel value v, encoded to 16 bits as v*65535/255 and decoded back as
\* x*255/65535, comes back as v.
C31_PaletteScalingRoundTrips ==
    /\ palPc \in {"written", "read"} =>
           colormap = ((IF palColor.hasColor THEN palColor.value ELSE 0)
                          * 65535) \div 255
    /\ palPc = "read" =>
           palRead = (IF palColor.hasColor THEN palColor.value ELSE 0)

\* The brightest channel value has gone through the file.
C31_Witness ==
    /\ palPc = "read"
    /\ palColor.hasColor
    /\ palColor.value = 255
    /\ colormap = 65535
    /\ palRead = 255

\* The layers the texture holds and the layer the last Internalize made.
StoredLayers ==
    { pvrTex.mipmaps[n] : n \in 1..Len(pvrTex.mipmaps) }
        \cup (IF pvrLast.mipLayer.compressedWith = "none" THEN {}
              ELSE {pvrLast.mipLayer})

\* The block of the format a layer was compressed with.
BlockOf(layer) ==
    IF layer.compressedWith \in { "GL_COMPRESSED_RGB_PVRTC_2BPPV1_IMG",
                                  "GL_COMPRESSED_RGBA_PVRTC_2BPPV1_IMG" }
    THEN [ w |-> 16, h |-> 8 ] ELSE [ w |-> 8, h |-> 8 ]

\* raw is the least multiple of block that is at least logical.
LeastMultiple(raw, logical, block) ==
    /\ raw % block = 0
    /\ raw >= logical
    /\ raw - logical < block

PlacesOf(kind) ==
    { k \in 1..Len(pvrBlock) : pvrBlock[k].kind = kind }

\* The sum over the mipmaps of (dataSize + 4).
SumOfSizesPlusFour ==
    LET sizes == [n \in 1..Len(pvrTex.mipmaps) |-> pvrTex.mipmaps[n].dataSize + 4]
    IN  IF Len(sizes) = 1 THEN sizes[1]
        ELSE IF Len(sizes) = 2 THEN sizes[1] + sizes[2]
        ELSE IF Len(sizes) = 3 THEN sizes[1] + sizes[2] + sizes[3]
        ELSE 0

\* C33: the struct block written by PVRTC SerializeTexture is
\* self-consistent for every texture with at least one mipmap: mipmapCount
\* equals the number of size entries and of payloads, imageDataStreamSize is
\* the sum over mipmaps of (dataSize + 4), all size entries precede all
\* payloads, both in mipmap order; a texture with no mipmaps is rejected
\* before anything is written.
C33_StructBlockSelfConsistent ==
    /\ (pvrWritten = "returned") =>
           /\ Len(pvrTex.mipmaps) >= 1
           /\ PlacesOf("metaHeader") = {1}
           /\ pvrBlock[1].mipmapCount = Len(pvrTex.mipmaps)
           /\ Cardinality(PlacesOf("mipDataSize")) = pvrBlock[1].mipmapCount
           /\ Cardinality(PlacesOf("texels")) = pvrBlock[1].mipmapCount
           /\ pvrBlock[1].imageDataStreamSize = SumOfSizesPlusFour
           /\ \A a \in PlacesOf("mipDataSize"), b \in PlacesOf("texels") : a < b
           /\ \A n \in 1..Len(pvrTex.mipmaps) :
                  /\ pvrBlock[1 + n].kind = "mipDataSize"
                  /\ pvrBlock[1 + n].value = pvrTex.mipmaps[n].dataSize
                  /\ pvrBlock[1 + Len(pvrTex.mipmaps) + n].kind = "texels"
                  /\ pvrBlock[1 + Len(pvrTex.mipmaps) + n].layer = n
    /\ (pvrWritten # "ready" /\ Len(pvrTex.mipmaps) = 0) =>
           pvrWritten = "thrown" /\ pvrBlock = <<>>

\* A texture of two layers of different sizes has been written.
C33_Witness ==
    /\ pvrWritten = "returned"
    /\ Len(pvrTex.mipmaps) = 2
    /\ pvrTex.mipmaps[1].dataSize > pvrTex.mipmaps[2].dataSize
    /\ Len(pvrBlock) = 5

\* A texture without layers has been refused.
C33_WitnessEmpty ==
    /\ pvrWritten = "thrown"
    /\ pvrTex.mipmaps = <<>>

\* C34: destroying a NativeImage through the type system runs clearImageData
\* (releasing raster references), then the codec payload destructor, then
\* the handle destructor; and if the codec payload constructor throws during
\* construction, the already-built handle is destructed and the error
\* propagates, so no image object results.
C34_DestroyOrderAndConstructUnwind ==
    /\ (lifeCall.op = "Destruct" /\ lifePc = 0) =>
           /\ lifeLog = <<"clearImageData", "DestroyImage",
                          "~NativeImagePrivate">>
           /\ lifeCall.ownerAtPayload = NULL
           /\ lifeCall.asserts
           /\ ~imgAlive[lifeCall.img]
    /\ (lifeCall.op = "Construct" /\ lifePc = 0
           /\ "ConstructImage throws" \in {lifeLog[k] : k \in 1..Len(lifeLog)}) =>
           /\ lifeLog[Len(lifeLog)] = "~NativeImagePrivate"
           /\ lifeLog[1] = "NativeImagePrivate"
           /\ lifeCall.result = "thrown"
           /\ ~imgAlive[lifeCall.img]

\* An image that borrowed from a raster has been destroyed.
C34_Witness ==
    /\ lifeCall.op = "Destruct"
    /\ lifePc = 0
    /\ \E r \in Rasters : refCount[r] = 1 /\ LeakedConstRefs(r) = 0
                          /\ callerConstRefs[r] = 0 /\ constRefCount[r] = 0
    /\ lifeCall.copied # NoCopy

\* C35: the assertions in the NativeImagePrivate destructor hold every time
\* the destructor runs, on all three paths that reach it: normal Destruct,
\* the failure path of Construct, and the failure path of CopyConstruct when
\* the source image is borrowing from a raster.
C35_DestructorAssertsHold ==
    lifeCall.asserts

\* The first two of the three paths.
C35_AssertsHoldOffCopyConstruct ==
    lifeCall.op # "CopyConstruct" => lifeCall.asserts

\* C36: copy-constructing a NativeImage and then destroying the copy leaves
\* the const-reference count and the owning reference count of the source's
\* pixelOwner raster equal to their values before the copy, both when the
\* source's externalRasterRef is false and when it is true.
C36_CopyThenDestroyRestoresCounts ==
    (lifeCall.op = "Destruct" /\ lifePc = 0 /\ lifeCall.copied # NoCopy) =>
        /\ refCount[lifeCall.copied.owner] = lifeCall.copied.refCount
        /\ constRefCount[lifeCall.copied.owner] =
               lifeCall.copied.constRefCount

\* The half of it that is about a source with externalRasterRef = false.
C36_RestoresCountsOfOwnBorrower ==
    (lifeCall.op = "Destruct" /\ lifePc = 0 /\ lifeCall.copied # NoCopy
        /\ ~lifeCall.copied.externalRasterRef) =>
        /\ refCount[lifeCall.copied.owner] = lifeCall.copied.refCount
        /\ constRefCount[lifeCall.copied.owner] =
               lifeCall.copied.constRefCount

\* The last call registered a manager that was registered at that time.
RegisteredAgain ==
    /\ lastReg.op = "register"
    /\ lastReg.man \in Linked(lastReg.preList)

\* C37: a native-image type manager is in the registry's format list at
\* most once after any sequence of RegisterNativeImageType and
\* UnregisterNativeImageType calls: registering a manager that is currently
\* registered, under the same or a different type name, returns false and
\* does not insert its list node a second time.
C37_ManagerLinkedAtMostOnce ==
    /\ \A m \in Managers : TimesLinked(m) <= 1
    /\ RegisteredAgain => (~lastReg.success /\ formatsList = lastReg.preList)

\* The half of it that is about the same type name: the name conflict
\* makes the call return false, and the list stays as it was.
C37_SameNameRefused ==
    (RegisteredAgain /\ typeSystem[lastReg.name] = lastReg.man
        /\ lastReg.conflict) =>
        (~lastReg.success /\ ~lastReg.escaped /\ formatsList = lastReg.preList)

\* The last call came back without throwing.
StreamReturned ==
    strLast.called /\ strLast.out.resultFile # "thrown"

\* The managers of the list in front of the first one that accepts, and
\* that one.
ProbedCompressors ==
    LET hits == {k \in DOMAIN strLast.list : strLast.list[k] \in strLast.accepts}
        stop == IF hits = {} THEN Len(strLast.list)
                ELSE CHOOSE k \in hits : \A j \in hits : k <= j
    IN  SubSeq(strLast.list, 1, stop)

\* Exactly one live stream comes back, placed at 0, and the compressors
\* were probed in registration order, each from 0, up to the first that
\* accepts.
OneLiveStreamAtZero ==
    /\ \/ /\ strLast.out.resultFile = "compressed"
          /\ strLast.out.pos = 0
          /\ strLast.out.deletedCompressed = 0
          /\ strLast.out.hasDecFile => strLast.out.deletedDecFile = 1
       \/ /\ strLast.out.resultFile = "tmpFile"
          /\ strLast.out.tmpPos = 0
          /\ strLast.out.deletedCompressed = 1
          /\ strLast.out.deletedDecFile = 0
    /\ strLast.env =>
          /\ Len(strLast.out.probed) = Len(ProbedCompressors)
          /\ \A k \in DOMAIN strLast.out.probed :
                 /\ strLast.out.probed[k][1] = ProbedCompressors[k]
                 /\ strLast.out.probed[k][2] = 0
          /\ strLast.out.resultFile = "tmpFile" =>
                 /\ strLast.out.theManager \in strLast.accepts
                 /\ strLast.out.theManager =
                        ProbedCompressors[Len(ProbedCompressors)]

\* C38: CreateDecompressedStream hands back exactly one live stream on every
\* non-throwing path: either the original stream, repositioned to offset 0
\* and not deleted, with any temporary file handle it created deleted; or a
\* temporary-file wrapper positioned at 0, with the original stream deleted
\* exactly once.  The compressors are probed in registration order, each
\* probe starting at offset 0, and the first that accepts is used.
C38_OneLiveStream ==
    StreamReturned => OneLiveStreamAtZero

\* The same for streams whose cursor is at offset 0 when they are handed in.
C38_OneLiveStreamFromOffsetZero ==
    (StreamReturned /\ strLast.posBefore = 0) => OneLiveStreamAtZero

\* tmpRoot stays what it is once it is a repository, as long as the
\* environment lives.
RootKept ==
    (tmpRoot # NULL /\ repLog.alive /\ repLog'.alive) => tmpRoot' = tmpRoot

\* GenerateTempRepository was called at most once and every caller got the
\* one repository.
GeneratedOnce ==
    /\ Len(repLog.generated) <= 1
    /\ \A k \in DOMAIN repLog.returned :
           /\ repLog.returned[k][2] # NULL
           /\ repLog.returned[k][2] = repLog.returned[1][2]

\* C39: under any interleaving of concurrent GetRepository calls, the
\* temporary repository is generated at most once (GenerateTempRepository is
\* called at most once per environment), every caller receives that same
\* repository, and tmpRoot never changes again once it is non-null.
C39_GeneratedAtMostOnce ==
    [] GeneratedOnce /\ [][RootKept]_vars

\* GenerateTempRepository gave a repository at most once, in its last call;
\* every caller got that repository or NULL.
OneRepository ==
    /\ \A k \in DOMAIN repLog.generated :
           repLog.generated[k] # NULL => k = Len(repLog.generated)
    /\ \A k \in DOMAIN repLog.generated :
           repLog.generated[k] # NULL => tmpRoot = repLog.generated[k]
    /\ \A k \in DOMAIN repLog.returned :
           repLog.returned[k][2] \in {NULL, tmpRoot}
    /\ tmpRoot # NULL =>
           /\ repLog.generated # <<>>
           /\ tmpRoot = repLog.generated[Len(repLog.generated)]

\* C39, amended: under any interleaving of concurrent GetRepository calls
\* GenerateTempRepository is called again only while every earlier call of
\* it gave NULL, so at most one repository is generated per environment;
\* every caller receives that repository or NULL; and tmpRoot never changes
\* again once it is non-null.
C39_OneRepositoryPerEnvironment ==
    [] OneRepository /\ [][RootKept]_vars

\* Two threads were in GetRepository at once, both went for the lock, and
\* both came back with the one repository.
C39_Witness ==
    /\ repLog.overlapped
    /\ Len(repLog.generated) = 1
    /\ tmpRoot # NULL
    /\ \E j, k \in DOMAIN repLog.returned :
           /\ repLog.returned[j][1] # repLog.returned[k][1]
           /\ repLog.returned[j][2] = tmpRoot
           /\ repLog.returned[k][2] = tmpRoot

====
